---- MODULE Spec2Model ----
(***************************************************************************)
(* Retrieval core of murmur-brain: the FAISS index manager                 *)
(* (server/core/faiss_manager.py), the search service                      *)
(* (server/modules/search) and the context ranker                          *)
(* (server/modules/chats/chats_service.py).                                *)
(*                                                                         *)
(* Numbers.  Embeddings are vectors of small integers.  A normalized       *)
(* vector is held in fixed point with Unit = 1.0, so an inner product of   *)
(* two normalized vectors is a similarity in units of 1/SimOne.  The       *)
(* embeddings used have integer norms (5-12-13 triangles), which makes     *)
(* every normalization and every cosine exact in this representation.      *)
(* Thresholds are in units of 1e-5 (ThresholdOne = 1.0); similarities as   *)
(* a response reports them, rounded to 4 places, and quality scores are in *)
(* units of 1e-4 (ReportedOne = 1.0).                                      *)
(***************************************************************************)
EXTENDS Integers, Sequences, FiniteSets, TLC

VARIABLES
    index,        \* FaissIndexManager.index: the stored (normalized) vectors, position p at index[p+1]
    id_to_index,  \* FaissIndexManager.id_to_index: insertion-ordered dict, a sequence of [id, idx]
    index_to_id,  \* FaissIndexManager.index_to_id: dict position -> id
    index_file,   \* the file at index_path: [exists, vectors]
    mappings_file,\* the file at index_path + ".mappings": [state, id_to_index, index_to_id]
    documents,    \* the rows of table documents: the set of their ids
    vectors,      \* the rows of table vectors (the chunks), in insertion order
    uuids,        \* how many uuid4() values DocumentRepository has drawn
    messages,     \* the rows of table messages of one chat, in order of created_at
    title,        \* column title of that chat's row of table chats
    ret           \* the call that ran last: its name, arguments and return value

ivars == <<index, id_to_index, index_to_id>>
fvars == <<index_file, mappings_file>>
cvars == <<messages, title>>
svars == <<documents, vectors, uuids, cvars>>
vars == <<index, id_to_index, index_to_id, index_file, mappings_file,
          documents, vectors, uuids, messages, title, ret>>

(***************************************************************************)
(* Bounds of the model.                                                    *)
(***************************************************************************)
MaxVectors == 2      \* vectors held by the index
MaxBatch == 1        \* ids / embeddings passed to one call
MaxTopK == 2         \* largest top_k passed to a search
MaxSaved == 2        \* vectors held by the index where its files are modelled
MaxChunks == 2       \* rows of table vectors
MaxDocs == 2         \* rows of table documents ever created

Ids == {"a", "b", "c"}

\* self.embedding_dim (768 in the deployment; 2 here, the embeddings below are pairs)
embedding_dim == 2

\* 1.0 in the fixed-point representation of a normalized coordinate / of a similarity
Unit == 12 + 1
SimOne == Unit * Unit

\* Embeddings handed to add_vectors: two of the same direction and different
\* length, one of another direction, the opposite of the first, the zero
\* vector, and one of the wrong dimension.
Embeddings == { <<10, 24>>, <<12, 5>>, <<13>> }
\* Query embeddings: cosine 1.0, 0.7100.. and 0.3846.. to the stored directions
Queries == { <<5, 12>>, <<13>> }

(***************************************************************************)
(* Sequences and Python dicts.                                             *)
(***************************************************************************)
SeqsUpTo(S, n) == UNION { [1..k -> S] : k \in 0..n }

Range(s) == { s[i] : i \in DOMAIN s }

RECURSIVE SumSeq(_)
SumSeq(s) == IF Len(s) = 0 THEN 0 ELSE s[1] + SumSeq(Tail(s))

Min(a, b) == IF a <= b THEN a ELSE b
Max(a, b) == IF a >= b THEN a ELSE b

\* dict keyed by id, in insertion order
DictKeys(d) == { d[i].id : i \in DOMAIN d }
DictHas(d, k) == k \in DictKeys(d)
DictGet(d, k) == (CHOOSE i \in DOMAIN d : d[i].id = k)
DictVal(d, k) == d[DictGet(d, k)].idx
\* d[k] = v: an existing key keeps its place in the order, a new key is appended
DictSet(d, k, v) ==
    IF DictHas(d, k)
    THEN [d EXCEPT ![DictGet(d, k)] = [id |-> k, idx |-> v]]
    ELSE Append(d, [id |-> k, idx |-> v])

\* dict keyed by position
EmptyMap == [p \in {} |-> "a"]
MapSet(m, p, v) == [q \in (DOMAIN m) \cup {p} |-> IF q = p THEN v ELSE m[q]]

(***************************************************************************)
(* Vectors.                                                                *)
(***************************************************************************)
Dot(u, v) == SumSeq([i \in 1..Len(u) |-> u[i] * v[i]])

RECURSIVE IsqrtFrom(_, _)
IsqrtFrom(n, r) == IF (r + 1) * (r + 1) > n THEN r ELSE IsqrtFrom(n, r + 1)
Isqrt(n) == IsqrtFrom(n, 0)

Magnitude(v) == Isqrt(Dot(v, v))

\* faiss.normalize_L2 on one row: a zero row is left as it is
NormalizeL2(v) ==
    IF Magnitude(v) = 0 THEN v
    ELSE [i \in 1..Len(v) |-> (v[i] * Unit) \div Magnitude(v)]

(***************************************************************************)
(* FaissIndexManager: the object's fields as one record.                   *)
(***************************************************************************)
Manager(idx, d, m) == [index |-> idx, id_to_index |-> d, index_to_id |-> m]
EmptyManager == Manager(<<>>, <<>>, EmptyMap)
\* a method's outcome: the fields after the call and the value returned
Outcome(fm, ok) == [fm |-> fm, ok |-> ok]

\* A filter argument: None, or a list of ids
NoFilter == [some |-> FALSE, ids |-> <<>>]
ListFilter(ids) == [some |-> TRUE, ids |-> ids]
\* Python truth of a list argument: neither None nor the empty list
Truthy(filter) == filter.some /\ Len(filter.ids) > 0

(***************************************************************************)
(* FaissIndexManager.add_vectors                                           *)
(***************************************************************************)
\* np.array(embeddings, dtype=np.float32) raises on rows of different lengths
Ragged(embeddings) ==
    \E i, j \in DOMAIN embeddings : Len(embeddings[i]) # Len(embeddings[j])

\* What raises inside the try block before anything is stored: the length
\* check, np.array on ragged rows, and index.add (a dimension other than the
\* index's, or a lower-level error of the library: fault).
AddRaises(vector_ids, embeddings, fault) ==
    \/ Len(vector_ids) # Len(embeddings)
    \/ Ragged(embeddings)
    \/ Len(embeddings[1]) # embedding_dim
    \/ fault

\* the loop "for i, vector_id in enumerate(vector_ids)" on id_to_index
RECURSIVE MapIdsToIndex(_, _, _)
MapIdsToIndex(d, vector_ids, idx) ==
    IF Len(vector_ids) = 0 THEN d
    ELSE MapIdsToIndex(DictSet(d, Head(vector_ids), idx), Tail(vector_ids), idx + 1)

\* the same loop on index_to_id
RECURSIVE MapIndexToIds(_, _, _)
MapIndexToIds(m, vector_ids, idx) ==
    IF Len(vector_ids) = 0 THEN m
    ELSE MapIndexToIds(MapSet(m, idx, Head(vector_ids)), Tail(vector_ids), idx + 1)

\* index.add(embeddings_array) after faiss.normalize_L2(embeddings_array)
IndexAdd(idx, embeddings) ==
    idx \o [i \in 1..Len(embeddings) |-> NormalizeL2(embeddings[i])]

\* add_vectors with the lower-level error raised after index.add has stored
\* the vectors
add_vectors_FailsAfterAdd(fm, vector_ids, embeddings, fault) ==
    IF Len(vector_ids) = 0 \/ Len(embeddings) = 0 THEN Outcome(fm, FALSE)
    ELSE IF AddRaises(vector_ids, embeddings, FALSE) THEN Outcome(fm, FALSE)
    ELSE IF fault
    THEN Outcome(Manager(IndexAdd(fm.index, embeddings), fm.id_to_index, fm.index_to_id),
                 FALSE)
    ELSE Outcome(Manager(IndexAdd(fm.index, embeddings),
                         MapIdsToIndex(fm.id_to_index, vector_ids, Len(fm.index)),
                         MapIndexToIds(fm.index_to_id, vector_ids, Len(fm.index))),
                 TRUE)

add_vectors(fm, vector_ids, embeddings, fault) ==
    IF Len(vector_ids) = 0 \/ Len(embeddings) = 0 THEN Outcome(fm, FALSE)
    ELSE IF AddRaises(vector_ids, embeddings, fault) THEN Outcome(fm, FALSE)
    ELSE Outcome(Manager(IndexAdd(fm.index, embeddings),
                         MapIdsToIndex(fm.id_to_index, vector_ids, Len(fm.index)),
                         MapIndexToIds(fm.index_to_id, vector_ids, Len(fm.index))),
                 TRUE)

(***************************************************************************)
(* FaissIndexManager.remove_vectors and _rebuild_without_ids               *)
(***************************************************************************)
\* the entries of id_to_index that survive, in the dict's iteration order
EntriesToKeep(d, ids_to_remove) ==
    SelectSeq(d, LAMBDA e : e.id \notin ids_to_remove)

\* index.reconstruct(idx) raises for a position the index does not hold
ReconstructRaises(idx, keep) ==
    \E i \in DOMAIN keep : keep[i].idx >= Len(idx)

\* the index and the dicts after "for i, vector_id in enumerate(ids_to_keep)"
RebuiltIndex(idx, keep) == [i \in 1..Len(keep) |-> idx[keep[i].idx + 1]]
RebuiltIdToIndex(keep) == [i \in 1..Len(keep) |-> [id |-> keep[i].id, idx |-> i - 1]]
RebuiltIndexToId(keep) ==
    IF Len(keep) = 0 THEN EmptyMap
    ELSE [p \in 0..(Len(keep) - 1) |-> keep[p + 1].id]

\* fault: the library raises while the new index is filled (np.array or
\* index.add), after the index was replaced and both dicts were cleared
rebuild_without_ids(fm, ids_to_remove, fault) ==
    LET keep == EntriesToKeep(fm.id_to_index, ids_to_remove) IN
    IF ReconstructRaises(fm.index, keep) THEN Outcome(fm, FALSE)
    ELSE IF fault /\ Len(keep) > 0 THEN Outcome(EmptyManager, FALSE)
    ELSE Outcome(Manager(RebuiltIndex(fm.index, keep), RebuiltIdToIndex(keep),
                         RebuiltIndexToId(keep)),
                 TRUE)

\* existing_ids = [vid for vid in vector_ids if vid in self.id_to_index]
ExistingIds(d, vector_ids) == SelectSeq(vector_ids, LAMBDA vid : DictHas(d, vid))

remove_vectors(fm, vector_ids, fault) ==
    IF Len(vector_ids) = 0 THEN Outcome(fm, TRUE)
    ELSE IF Len(ExistingIds(fm.id_to_index, vector_ids)) = 0 THEN Outcome(fm, TRUE)
    ELSE rebuild_without_ids(fm, Range(vector_ids), fault)

(***************************************************************************)
(* FaissIndexManager.clear, save, load                                     *)
(***************************************************************************)
clear(fm) == Outcome(EmptyManager, TRUE)

Files(f, g) == [index_file |-> f, mappings_file |-> g]
NoIndexFile == [exists |-> FALSE, vectors |-> <<>>]
NoMappingsFile == [state |-> "absent", id_to_index |-> <<>>, index_to_id |-> EmptyMap]
CorruptMappingsFile == [state |-> "corrupt", id_to_index |-> <<>>, index_to_id |-> EmptyMap]

\* faiss.write_index(self.index, self.index_path)
WrittenIndexFile(idx) == [exists |-> TRUE, vectors |-> idx]
\* WrittenMappingsFile with index_to_id left out of the pickle
WrittenMappingsFile_OneDict(d, m) ==
    [state |-> "written", id_to_index |-> d, index_to_id |-> EmptyMap]

\* pickle.dump({"id_to_index": ..., "index_to_id": ...}, f)
WrittenMappingsFile(d, m) == [state |-> "written", id_to_index |-> d, index_to_id |-> m]

SaveFaults == {"none", "write_index", "open", "dump"}

\* The files after save, and the value it returns.  fault: where the storage
\* fails: in write_index (the file keeps its content), in
\* open(mappings_path, "wb") (the mappings file keeps its content), or in
\* pickle.dump (the mappings file was truncated by open).
save(fm, files, fault) ==
    [files |-> Files(
        IF fault = "write_index" THEN files.index_file ELSE WrittenIndexFile(fm.index),
        IF fault \in {"write_index", "open"} THEN files.mappings_file
        ELSE IF fault = "dump" THEN CorruptMappingsFile
        ELSE WrittenMappingsFile(fm.id_to_index, fm.index_to_id)),
     ok |-> fault = "none"]

load(fm, files) ==
    IF ~files.index_file.exists THEN Outcome(fm, FALSE)
    ELSE IF files.mappings_file.state = "corrupt"
    THEN Outcome(EmptyManager, FALSE)   \* pickle.load raises: start fresh
    ELSE IF files.mappings_file.state = "written"
    THEN Outcome(Manager(files.index_file.vectors, files.mappings_file.id_to_index,
                         files.mappings_file.index_to_id), TRUE)
    ELSE Outcome(Manager(files.index_file.vectors, fm.id_to_index, fm.index_to_id), TRUE)

(***************************************************************************)
(* FaissIndexManager.search                                                *)
(***************************************************************************)
\* inner product of the normalized query with the vector stored at position p
InnerProduct(idx, query_array, p) == Dot(query_array, idx[p + 1])

\* The position IndexFlatIP ranks first among S: the largest inner product,
\* the lower position among equal ones.
BestPosition(idx, query_array, S) ==
    CHOOSE p \in S : \A r \in S :
        \/ InnerProduct(idx, query_array, p) > InnerProduct(idx, query_array, r)
        \/ /\ InnerProduct(idx, query_array, p) = InnerProduct(idx, query_array, r)
           /\ p <= r

\* self.index.search(query_array, search_k): search_k hits [idx, sim] by
\* descending inner product, filled up with idx = -1 when the index holds
\* fewer than search_k vectors
RECURSIVE IndexSearch(_, _, _, _)
IndexSearch(idx, query_array, S, search_k) ==
    IF search_k = 0 THEN <<>>
    ELSE IF S = {} THEN <<[idx |-> -1, sim |-> -SimOne]>>
                        \o IndexSearch(idx, query_array, S, search_k - 1)
    ELSE LET p == BestPosition(idx, query_array, S) IN
         <<[idx |-> p, sim |-> InnerProduct(idx, query_array, p)]>>
         \o IndexSearch(idx, query_array, S \ {p}, search_k - 1)

\* search_k = top_k if not vector_ids_filter else min(self.index.ntotal, top_k * 10)
SearchK(ntotal, top_k, filter) ==
    IF ~Truthy(filter) THEN top_k ELSE Min(ntotal, top_k * 10)

\* "if vector_ids_filter and vector_id not in vector_ids_filter: continue"
FilteredOut(filter, vector_id) == Truthy(filter) /\ vector_id \notin Range(filter.ids)

\* EnoughResults with the loop left one result late
EnoughResults_OneMore(results, top_k) == Len(results) > top_k

\* "if len(results) >= top_k: break", tested after each append
EnoughResults(results, top_k) == Len(results) >= top_k

\* the loop "for i, idx in enumerate(indices[0])" from hit i on
RECURSIVE CollectResults(_, _, _, _, _, _)
CollectResults(hits, i, m, top_k, filter, results) ==
    IF i > Len(hits) THEN results
    ELSE IF hits[i].idx = -1 THEN CollectResults(hits, i + 1, m, top_k, filter, results)
    ELSE IF hits[i].idx \notin DOMAIN m
         THEN CollectResults(hits, i + 1, m, top_k, filter, results)
    ELSE IF FilteredOut(filter, m[hits[i].idx])
         THEN CollectResults(hits, i + 1, m, top_k, filter, results)
    ELSE LET appended == Append(results, [id |-> m[hits[i].idx], sim |-> hits[i].sim]) IN
         IF EnoughResults(appended, top_k) THEN appended
         ELSE CollectResults(hits, i + 1, m, top_k, filter, appended)

\* The list search returns.  The library's search raises for a query of
\* another dimension and for search_k < 1; the except clause turns that into
\* the empty list.
search(fm, query_embedding, top_k, filter) ==
    IF Len(fm.index) = 0 THEN <<>>
    ELSE IF Len(query_embedding) # embedding_dim THEN <<>>
    ELSE IF SearchK(Len(fm.index), top_k, filter) < 1 THEN <<>>
    ELSE CollectResults(
            IndexSearch(fm.index, NormalizeL2(query_embedding), 0..(Len(fm.index) - 1),
                        SearchK(Len(fm.index), top_k, filter)),
            1, fm.index_to_id, top_k, filter, <<>>)

(***************************************************************************)
(* The store: tables documents and vectors (sqlite, foreign keys not       *)
(* enforced: no PRAGMA foreign_keys is issued on the connection).          *)
(***************************************************************************)
\* uuid4() values for chunks, in the order they are drawn
IdSeq == <<"a", "b", "c", "d", "e">>

\* json.dumps(embedding).encode(): the column value of an embedding
EmbeddingBlob(embedding) == [null |-> FALSE, json |-> embedding]
NullBlob == [null |-> TRUE, json |-> <<>>]
\* VectorRepository.decode_embedding: json.loads(blob.decode('utf-8'))
decode_embedding(blob) == blob.json

Row(id, doc_id, chunk_index, chunk_text, blob) ==
    [id |-> id, doc_id |-> doc_id, chunk_index |-> chunk_index,
     chunk_text |-> chunk_text, embedding |-> blob]

RemoveAt(s, i) == SubSeq(s, 1, i - 1) \o SubSeq(s, i + 1, Len(s))

\* ORDER BY v.doc_id, v.chunk_index (rows that tie stay in insertion order)
RowBefore(r, q) ==
    \/ r.doc_id < q.doc_id
    \/ r.doc_id = q.doc_id /\ r.chunk_index <= q.chunk_index

RECURSIVE OrderRows(_)
OrderRows(s) ==
    IF Len(s) = 0 THEN <<>>
    ELSE LET first == CHOOSE i \in DOMAIN s :
                         /\ \A j \in DOMAIN s : RowBefore(s[i], s[j])
                         /\ \A j \in 1..(i - 1) : ~RowBefore(s[j], s[i])
         IN <<s[first]>> \o OrderRows(RemoveAt(s, first))

\* VectorRepository.get_vectors_with_documents: the rows of vectors with an
\* embedding, joined to their document, of the documents doc_ids if given
get_vectors_with_documents(docs, rows, doc_ids) ==
    OrderRows(SelectSeq(rows, LAMBDA r :
        /\ ~r.embedding.null
        /\ r.doc_id \in docs
        /\ (Truthy(doc_ids) => r.doc_id \in Range(doc_ids.ids))))

\* the metadata query of SearchService.search: vectors JOIN documents
\* WHERE v.id IN (vector_ids), as the dict metadata_lookup
MetadataIds(docs, rows, vector_ids) ==
    { rows[i].id : i \in { j \in DOMAIN rows :
                             rows[j].doc_id \in docs /\ rows[j].id \in vector_ids } }
MetadataRow(rows, vector_id) == rows[CHOOSE i \in DOMAIN rows : rows[i].id = vector_id]

(***************************************************************************)
(* VectorRepository.cosine_similarity, in units of 1/SimOne                *)
(***************************************************************************)
cosine_similarity(vec1, vec2) ==
    IF Len(vec1) = 0 \/ Len(vec2) = 0 \/ Len(vec1) # Len(vec2) THEN 0
    ELSE IF Magnitude(vec1) = 0 \/ Magnitude(vec2) = 0 THEN 0
    ELSE Max(0, Min(SimOne,
                    (Dot(vec1, vec2) * SimOne) \div (Magnitude(vec1) * Magnitude(vec2))))

(***************************************************************************)
(* SearchService.search                                                    *)
(***************************************************************************)
\* 1.0 as a threshold (thresholds are in units of 1e-5) and as a reported
\* similarity (units of 1e-4, the four decimals round() keeps)
ThresholdOne == 100 * 1000
ReportedOne == 100 * 100

\* AtLeast with the comparison turned around
AtLeast_AtMost(similarity, threshold) == similarity * ThresholdOne <= threshold * SimOne

\* AtLeast with the threshold ignored
AtLeast_Always(similarity, threshold) == TRUE

\* similarity >= threshold, similarity in units of 1/SimOne
AtLeast(similarity, threshold) == similarity * ThresholdOne >= threshold * SimOne

\* round(similarity, 4): the nearest multiple of 1e-4
Round4(similarity) == (2 * similarity * ReportedOne + SimOne) \div (2 * SimOne)

\* query.strip(), the query a sequence of characters
RECURSIVE LStrip(_)
LStrip(query) ==
    IF Len(query) > 0 /\ Head(query) = " " THEN LStrip(Tail(query)) ELSE query
RECURSIVE RStrip(_)
RStrip(query) ==
    IF Len(query) > 0 /\ query[Len(query)] = " "
    THEN RStrip(SubSeq(query, 1, Len(query) - 1)) ELSE query
Strip(query) == RStrip(LStrip(query))

\* ValidationFails without the upper bound of top_k
ValidationFails_NoUpperBound(query, top_k, threshold) ==
    \/ Len(query) = 0 \/ Len(Strip(query)) = 0
    \/ top_k < 1
    \/ threshold < 0 \/ threshold > ThresholdOne

\* the three checks under "Validate parameters"
ValidationFails(query, top_k, threshold) ==
    \/ Len(query) = 0 \/ Len(Strip(query)) = 0
    \/ top_k < 1 \/ top_k > 100
    \/ threshold < 0 \/ threshold > ThresholdOne

Item(row, similarity) ==
    [vector_id |-> row.id, doc_id |-> row.doc_id, chunk_index |-> row.chunk_index,
     chunk_text |-> row.chunk_text, similarity |-> Round4(similarity)]

\* lines 129-149: the loop over faiss_results from entry i on
RECURSIVE ThresholdLoop(_, _, _, _, _, _, _)
ThresholdLoop(faiss_results, i, docs, rows, top_k, threshold, filtered_results) ==
    IF i > Len(faiss_results) THEN filtered_results
    ELSE LET hit == faiss_results[i]
             found == /\ AtLeast(hit.sim, threshold)
                      /\ hit.id \in MetadataIds(docs, rows, {hit.id})
             next == IF found
                     THEN Append(filtered_results, Item(MetadataRow(rows, hit.id), hit.sim))
                     ELSE filtered_results
         IN IF Len(next) >= top_k THEN next
            ELSE ThresholdLoop(faiss_results, i + 1, docs, rows, top_k, threshold, next)

\* lines 175-198: the loop over the rows of the store
RECURSIVE FallbackLoop(_, _, _, _)
FallbackLoop(rows, i, query_embedding, threshold) ==
    IF i > Len(rows) THEN <<>>
    ELSE LET stored_embedding == decode_embedding(rows[i].embedding)
             similarity == cosine_similarity(query_embedding, stored_embedding)
             rest == FallbackLoop(rows, i + 1, query_embedding, threshold)
         IN IF rows[i].embedding.null \/ Len(stored_embedding) = 0 THEN rest
            ELSE IF AtLeast(similarity, threshold)
                 THEN <<Item(rows[i], similarity)>> \o rest
            ELSE rest

\* filtered_results.sort(key=lambda x: x["similarity"], reverse=True): stable
RECURSIVE SortBySimilarity(_)
SortBySimilarity(s) ==
    IF Len(s) = 0 THEN <<>>
    ELSE LET first == CHOOSE i \in DOMAIN s :
                         /\ \A j \in DOMAIN s : s[i].similarity >= s[j].similarity
                         /\ \A j \in 1..(i - 1) : s[j].similarity < s[i].similarity
         IN <<s[first]>> \o SortBySimilarity(RemoveAt(s, first))

FirstK(s, k) == SubSeq(s, 1, Min(k, Len(s)))

Response(status, path, results, touched) ==
    [status |-> status, path |-> path, results |-> results, touched |-> touched]

\* the except branch: the scan over the rows of the store.  fault = "all":
\* the store fails again and the error leaves search
Fallback(docs, rows, query_embedding, top_k, threshold, doc_ids, fault) ==
    LET found == get_vectors_with_documents(docs, rows, doc_ids) IN
    IF fault = "all" THEN Response("error", "fallback", <<>>, {"ollama", "store"})
    ELSE IF Len(found) = 0
    THEN Response("success", "fallback", <<>>, {"ollama", "store"})
    ELSE Response("success", "fallback",
                  FirstK(SortBySimilarity(FallbackLoop(found, 1, query_embedding, threshold)),
                         top_k),
                  {"ollama", "store"})

StoreFaults == {"none", "scope", "metadata", "all"}

\* The response of SearchService.search on the manager fm and the tables
\* docs and rows.  embedded: what self.ollama.generate_embedding does
\* (raises, or returns a list).  fault: which calls of the store raise: the
\* one that resolves doc_ids, the metadata query, or every call.
SearchService_search(fm, docs, rows, query, top_k, threshold, doc_ids, embedded, fault) ==
    IF ValidationFails(query, top_k, threshold)
    THEN Response("validation_error", "none", <<>>, {})
    ELSE IF embedded.raises \/ Len(embedded.embedding) = 0
    THEN Response("error", "none", <<>>, {"ollama"})
    ELSE
      LET query_embedding == embedded.embedding
          vector_ids_filter ==
              IF Truthy(doc_ids)
              THEN LET found == get_vectors_with_documents(docs, rows, doc_ids)
                   IN ListFilter([i \in DOMAIN found |-> found[i].id])
              ELSE NoFilter
          faiss_results == search(fm, query_embedding, top_k * 2, vector_ids_filter)
      IN
      IF Truthy(doc_ids) /\ fault \in {"scope", "all"}
      THEN Fallback(docs, rows, query_embedding, top_k, threshold, doc_ids, fault)
      ELSE IF Len(faiss_results) = 0
      THEN Response("success", "index", <<>>,
                    IF Truthy(doc_ids) THEN {"ollama", "store", "faiss"}
                    ELSE {"ollama", "faiss"})
      ELSE IF fault \in {"metadata", "all"}
      THEN Fallback(docs, rows, query_embedding, top_k, threshold, doc_ids, fault)
      ELSE Response("success", "index",
                    ThresholdLoop(faiss_results, 1, docs, rows, top_k, threshold, <<>>),
                    {"ollama", "store", "faiss"})

(***************************************************************************)
(* ChatService: calculate_chunk_quality_score and the ranking of           *)
(* build_rag_context.  A chunk text is known by what the score counts in   *)
(* it; quality scores are in units of 1/ReportedOne and combined scores in *)
(* units of 1/(ReportedOne * ReportedOne).                                 *)
(***************************************************************************)
rag_context_limit == 5

Counted(length, math, brackets, numbers, words, short, newlines) ==
    [length |-> length, math_count |-> math, bracket_count |-> brackets,
     numbers |-> numbers, words |-> words, short_words |-> short,
     newlines |-> newlines]

\* The texts of chunks: "prose" is 200 characters of plain sentences,
\* "formula" is "x_i = sum(a_j * b_k) for i in [1..50]" repeated to 200
\* characters, "table" is "12 34 56 ab\n" repeated to 200 characters,
\* "short" is 9 characters long
ProseText == "prose"
TableText == "table"
FormulaText == "formula"
ShortText == "short"
ChunkTexts == {ProseText, FormulaText, TableText, ShortText}

\* len(text), the text.count() sums and the re.findall() lengths
Counts(text) ==
    CASE text = ProseText -> Counted(200, 0, 0, 0, 30, 4, 0)
      [] text = FormulaText -> Counted(200, 0, 21, 10, 21, 10, 0)
      [] text = TableText -> Counted(200, 0, 0, 51, 16, 16, 16)
      [] text = ShortText -> Counted(9, 0, 0, 0, 2, 0, 0)

\* Penalty 1: min(0.4, math_density * 0.1), math_density per 100 characters
MathPenalty(c) == Min(4000, (c.math_count * 10 * ReportedOne) \div c.length)

\* Penalty 2: more than 15% brackets
BracketPenalty(c) ==
    IF c.bracket_count * 100 > 15 * c.length
    THEN Min(3000, (c.bracket_count * 5000) \div c.length) ELSE 0

\* Penalty 3: more than 30% numbers among words and numbers
NumberPenalty(c) ==
    IF c.words > 0 /\ c.numbers * 10 > 3 * (c.words + c.numbers)
    THEN Min(3000, (c.numbers * 5000) \div (c.words + c.numbers)) ELSE 0

\* Penalty 4: more than 5 newlines per 100 characters
NewlinePenalty(c) ==
    IF c.newlines * 100 > 5 * c.length
    THEN Min(2000, (c.newlines * 100 * 200) \div c.length) ELSE 0

\* Penalty 5: more than 40% of the words have one or two letters
ShortWordPenalty(c) ==
    IF c.words > 0 /\ c.short_words * 10 > 4 * c.words THEN 2000 ELSE 0

calculate_chunk_quality_score(text) ==
    LET c == Counts(text)
    IN IF c.length < 50 THEN 0
       ELSE Max(0, Min(ReportedOne,
                ReportedOne - MathPenalty(c) - BracketPenalty(c) - NumberPenalty(c)
                            - NewlinePenalty(c) - ShortWordPenalty(c)))

\* lines 231-239: every result with its quality and combined score
ScoredResults(results) ==
    [i \in DOMAIN results |->
        LET quality_score == calculate_chunk_quality_score(results[i].chunk_text)
        IN [result |-> results[i], quality_score |-> quality_score,
            combined_score |-> results[i].similarity * quality_score]]

\* FilteredResults with the bar at quality 0.3
FilteredResults_LowBar(scored_results) ==
    SelectSeq(scored_results, LAMBDA sr : 10 * sr.quality_score >= 3 * ReportedOne)

\* lines 242-246: quality_threshold = 0.5
FilteredResults(scored_results) ==
    SelectSeq(scored_results, LAMBDA sr : 2 * sr.quality_score >= ReportedOne)

\* sorted(..., key=lambda x: x["combined_score"], reverse=True): stable
RECURSIVE SortByCombinedScore(_)
SortByCombinedScore(s) ==
    IF Len(s) = 0 THEN <<>>
    ELSE LET first == CHOOSE i \in DOMAIN s :
                         /\ \A j \in DOMAIN s : s[i].combined_score >= s[j].combined_score
                         /\ \A j \in 1..(i - 1) : s[j].combined_score < s[i].combined_score
         IN <<s[first]>> \o SortByCombinedScore(RemoveAt(s, first))

\* RelaxFilter with the filter dropped only when nothing passes it
RelaxFilter_WhenEmpty(filtered_results, scored_results, top_k) ==
    Len(filtered_results) = 0 /\ Len(scored_results) > 0

\* line 255: the quality filter is dropped when it leaves too few results
RelaxFilter(filtered_results, scored_results, top_k) ==
    Len(filtered_results) < top_k /\ Len(scored_results) > 0

\* lines 230-260: top_results
TopResults(results, top_k) ==
    LET scored_results == ScoredResults(results)
        filtered_results == FilteredResults(scored_results)
        kept == IF RelaxFilter(filtered_results, scored_results, top_k)
                THEN SortByCombinedScore(scored_results)
                ELSE filtered_results
    IN FirstK(SortByCombinedScore(kept), top_k)

\* lines 283-291: the citation of one of top_results
Source(scored_result) ==
    [doc_id |-> scored_result.result.doc_id,
     vector_id |-> scored_result.result.vector_id,
     chunk_index |-> scored_result.result.chunk_index,
     similarity |-> scored_result.result.similarity,
     quality_score |-> scored_result.quality_score]

\* What build_rag_context gets from its collaborators: the chat has no linked
\* documents ("unlinked"), the search raises ("raised"), or a SearchResponse
Retrieved(state, results) == [op |-> "retrieved", state |-> state, results |-> results]

\* top_k: <<>> is None, <<k>> is k.  Returns the list of sources; the
\* context string has one part for each of them.
build_rag_context(retrieved, top_k) ==
    LET limit == IF top_k = <<>> THEN rag_context_limit ELSE top_k[1]
    IN IF retrieved.state # "success" \/ Len(retrieved.results) = 0 THEN <<>>
       ELSE LET top_results == TopResults(retrieved.results, limit)
            IN [i \in DOMAIN top_results |-> Source(top_results[i])]

(***************************************************************************)
(* DocumentRepository: create, add_vectors, delete                         *)
(***************************************************************************)
\* the rows add_vectors inserts for chunks, ids drawn from IdSeq after the
\* first n; an empty embedding is stored as NULL
NewRows(doc_id, chunks, n) ==
    [i \in 1..Len(chunks) |->
        Row(IdSeq[n + i], doc_id, i - 1, chunks[i].text,
            IF Len(chunks[i].embedding) > 0
            THEN EmbeddingBlob(chunks[i].embedding) ELSE NullBlob)]

\* "if chunk.get("embedding")": the rows collected for the index
EmbeddedRows(rows) == SelectSeq(rows, LAMBDA r : ~r.embedding.null)

RepositoryFaults == {"none", "store", "index"}

(***************************************************************************)
(* State and actions.                                                      *)
(***************************************************************************)
\* ChatRepository.create(title=None): the title of a chat created without one
\* (<<>> is None, <<t>> is the title t)
NewChatTitle == <<>>

Self == Manager(index, id_to_index, index_to_id)
Disk == Files(index_file, mappings_file)

SetManager(fm) ==
    /\ index' = fm.index
    /\ id_to_index' = fm.id_to_index
    /\ index_to_id' = fm.index_to_id
SetFiles(files) ==
    /\ index_file' = files.index_file
    /\ mappings_file' = files.mappings_file

Call(op, ok, ids) == [op |-> op, ok |-> ok, ids |-> ids]
SearchCall(top_k, filter, results) ==
    [op |-> "search", top_k |-> top_k, filter |-> filter, results |-> results]
\* of a SearchResponse ret keeps success, the path taken and "returned"
ServiceCall(response) ==
    [op |-> "SearchService.search", status |-> response.status, path |-> response.path,
     returned |-> Len(response.results)]

IdLists == SeqsUpTo(Ids, MaxBatch)
EmbeddingLists == SeqsUpTo(Embeddings, MaxBatch)
\* The arguments of add_vectors: every pair of lists of the same length, and
\* pairs of lists of different lengths
AddArguments ==
    { a \in IdLists \X EmbeddingLists : Len(a[1]) = Len(a[2]) }
    \cup { <<<<>>, <<<<10, 24>>>>>>, <<<<"a">>, <<>>>>,
           <<<<"a">>, <<<<10, 24>>, <<12, 5>>>>>>, <<<<"a", "b">>, <<<<10, 24>>>>>> }
FilterIds == {"a", "b"}
Filters == {NoFilter} \cup { ListFilter(ids) : ids \in SeqsUpTo(FilterIds, MaxBatch) }

\* __init__ on a machine without index files and with empty tables: an empty
\* IndexFlatIP, empty dicts, and a load() that finds nothing
Init ==
    /\ index = <<>>
    /\ id_to_index = <<>>
    /\ index_to_id = EmptyMap
    /\ index_file = NoIndexFile
    /\ mappings_file = NoMappingsFile
    /\ documents = {}
    /\ vectors = <<>>
    /\ uuids = [docs |-> {}, chunks |-> 0]
    /\ messages = <<>>
    /\ title = NewChatTitle
    /\ ret = Call("init", TRUE, <<>>)

\* ---- FaissIndexManager, called directly ----
AddVectors ==
    \E a \in AddArguments, fault \in BOOLEAN :
        /\ Len(index) + Len(a[2]) <= MaxVectors
        /\ SetManager(add_vectors(Self, a[1], a[2], fault).fm)
        /\ ret' = Call("add_vectors", add_vectors(Self, a[1], a[2], fault).ok, a[1])
        /\ UNCHANGED <<fvars, svars>>

RemoveVectors ==
    \E vector_ids \in IdLists, fault \in BOOLEAN :
        /\ SetManager(remove_vectors(Self, vector_ids, fault).fm)
        /\ ret' = Call("remove_vectors", remove_vectors(Self, vector_ids, fault).ok,
                       vector_ids)
        /\ UNCHANGED <<fvars, svars>>

Clear ==
    /\ SetManager(clear(Self).fm)
    /\ ret' = Call("clear", clear(Self).ok, <<>>)
    /\ UNCHANGED <<fvars, svars>>

Save ==
    \E fault \in SaveFaults :
        /\ SetFiles(save(Self, Disk, fault).files)
        /\ ret' = Call("save", save(Self, Disk, fault).ok, <<>>)
        /\ UNCHANGED <<ivars, svars>>

Load ==
    /\ SetManager(load(Self, Disk).fm)
    /\ ret' = Call("load", load(Self, Disk).ok, <<>>)
    /\ UNCHANGED <<fvars, svars>>

Search ==
    \E query_embedding \in Queries, top_k \in 0..MaxTopK, filter \in Filters :
        /\ ret' = SearchCall(top_k, filter, search(Self, query_embedding, top_k, filter))
        /\ UNCHANGED <<ivars, fvars, svars>>

Next == AddVectors \/ RemoveVectors \/ Clear \/ Search

Spec == Init /\ [][Next]_vars

\* ---- the index manager with its two files, on at most MaxSaved vectors ----
SavedAddArguments == { a \in AddArguments : Range(a[1]) \subseteq FilterIds }

PersistAddVectors ==
    \E a \in SavedAddArguments, fault \in BOOLEAN :
        /\ Len(index) + Len(a[2]) <= MaxSaved
        /\ SetManager(add_vectors(Self, a[1], a[2], fault).fm)
        /\ ret' = Call("add_vectors", add_vectors(Self, a[1], a[2], fault).ok, a[1])
        /\ UNCHANGED <<fvars, svars>>

PersistRemoveVectors ==
    \E vector_ids \in SeqsUpTo(FilterIds, 1), fault \in BOOLEAN :
        /\ SetManager(remove_vectors(Self, vector_ids, fault).fm)
        /\ ret' = Call("remove_vectors", remove_vectors(Self, vector_ids, fault).ok,
                       vector_ids)
        /\ UNCHANGED <<fvars, svars>>

NextPersist == PersistAddVectors \/ PersistRemoveVectors \/ Clear \/ Save \/ Load

SpecPersist == Init /\ [][NextPersist]_vars

\* ---- save, clear and load called one after the other ----
\* ret keeps the manager as it was when save was called, and what save returned
SaveCall(op, ok, saved, before) == [op |-> op, ok |-> ok, saved |-> saved, before |-> before]

\* save succeeds, or fails before it has written anything (what a failure
\* between the two files leaves is met in SpecPersist)
RoundTripFaults == {"none", "write_index"}

RoundTripSave ==
    \E fault \in RoundTripFaults :
        /\ SetFiles(save(Self, Disk, fault).files)
        /\ ret' = SaveCall("save", save(Self, Disk, fault).ok,
                           save(Self, Disk, fault).ok, Self)
        /\ UNCHANGED <<ivars, svars>>

RoundTripClear ==
    /\ ret.op = "save"
    /\ SetManager(clear(Self).fm)
    /\ ret' = SaveCall("clear", clear(Self).ok, ret.saved, ret.before)
    /\ UNCHANGED <<fvars, svars>>

RoundTripLoad ==
    /\ ret.op = "clear"
    /\ SetManager(load(Self, Disk).fm)
    /\ ret' = SaveCall("load", load(Self, Disk).ok, ret.saved, ret.before)
    /\ UNCHANGED <<fvars, svars>>

NextRoundTrip ==
    PersistAddVectors \/ PersistRemoveVectors \/ RoundTripSave \/ RoundTripClear
        \/ RoundTripLoad

SpecRoundTrip == Init /\ [][NextRoundTrip]_vars

\* ---- a search in one thread while remove_vectors rebuilds in another ----
\* ret holds the two calls in progress: for each its position in the code and
\* its local variables; before is the manager when both were called.  The
\* manager has no lock; a step is one statement that reads or writes
\* self.index, self.id_to_index or self.index_to_id.
Remover(pc, vector_ids, kept, i) ==
    [pc |-> pc, vector_ids |-> vector_ids, kept |-> kept, i |-> i]
Searcher(pc, query_embedding, top_k, filter, search_k, hits, i, results) ==
    [pc |-> pc, query_embedding |-> query_embedding, top_k |-> top_k, filter |-> filter,
     search_k |-> search_k, hits |-> hits, i |-> i, results |-> results]
Threads(remover, searcher, before) ==
    [op |-> "overlap", remove |-> remover, search |-> searcher, before |-> before]

\* no call is in progress
Idle ==
    IF ret.op = "overlap" THEN ret.remove.pc = "done" /\ ret.search.pc = "done" ELSE TRUE

Rebuilding(pc) == IF ret.op = "overlap" THEN ret.remove.pc = pc ELSE FALSE
Searching(pc) == IF ret.op = "overlap" THEN ret.search.pc = pc ELSE FALSE

RemoverAt(pc, kept, i) == [ret EXCEPT !.remove = Remover(pc, ret.remove.vector_ids, kept, i)]
SearcherAt(pc, search_k, hits, i, results) ==
    [ret EXCEPT !.search = Searcher(pc, ret.search.query_embedding, ret.search.top_k,
                                    ret.search.filter, search_k, hits, i, results)]

OverlapAdd == Idle /\ AddVectors

\* remove_vectors finds an id to remove and calls _rebuild_without_ids while
\* another thread calls search
OverlapCall ==
    \E vector_ids \in IdLists, top_k \in 1..MaxTopK, filter \in Filters :
        /\ Idle
        /\ Len(ExistingIds(id_to_index, vector_ids)) > 0
        /\ ret' = Threads(Remover("collect", vector_ids, <<>>, 0),
                          Searcher("ntotal", <<5, 12>>, top_k, filter, 0, <<>>, 0, <<>>),
                          Self)
        /\ UNCHANGED <<ivars, fvars, svars>>

\* lines 212-220: vectors_to_keep and ids_to_keep
RebuildCollect ==
    /\ Rebuilding("collect")
    /\ LET keep == EntriesToKeep(id_to_index, Range(ret.remove.vector_ids)) IN
       ret' = IF ReconstructRaises(index, keep) THEN RemoverAt("done", <<>>, 0)
              ELSE RemoverAt("new_index",
                             [i \in 1..Len(keep) |->
                                 [id |-> keep[i].id, vector |-> index[keep[i].idx + 1]]], 0)
    /\ UNCHANGED <<ivars, fvars, svars>>

\* line 223: self.index = faiss.IndexFlatIP(self.embedding_dim)
RebuildNewIndex ==
    /\ Rebuilding("new_index")
    /\ index' = <<>>
    /\ ret' = RemoverAt("clear_id_to_index", ret.remove.kept, 0)
    /\ UNCHANGED <<id_to_index, index_to_id, fvars, svars>>

\* line 224: self.id_to_index.clear()
RebuildClearIdToIndex ==
    /\ Rebuilding("clear_id_to_index")
    /\ id_to_index' = <<>>
    /\ ret' = RemoverAt("clear_index_to_id", ret.remove.kept, 0)
    /\ UNCHANGED <<index, index_to_id, fvars, svars>>

\* line 225: self.index_to_id.clear(), and "if vectors_to_keep"
RebuildClearIndexToId ==
    /\ Rebuilding("clear_index_to_id")
    /\ index_to_id' = EmptyMap
    /\ ret' = RemoverAt(IF Len(ret.remove.kept) > 0 THEN "add" ELSE "done",
                        ret.remove.kept, 0)
    /\ UNCHANGED <<index, id_to_index, fvars, svars>>

\* lines 229-230: self.index.add(vectors_array)
RebuildAdd ==
    /\ Rebuilding("add")
    /\ index' = [i \in 1..Len(ret.remove.kept) |-> ret.remove.kept[i].vector]
    /\ ret' = RemoverAt("map", ret.remove.kept, 1)
    /\ UNCHANGED <<id_to_index, index_to_id, fvars, svars>>

\* lines 232-234: one turn of "for i, vector_id in enumerate(ids_to_keep)"
RebuildMap ==
    /\ Rebuilding("map")
    /\ LET i == ret.remove.i
           vector_id == ret.remove.kept[i].id
       IN /\ id_to_index' = DictSet(id_to_index, vector_id, i - 1)
          /\ index_to_id' = MapSet(index_to_id, i - 1, vector_id)
          /\ ret' = RemoverAt(IF i = Len(ret.remove.kept) THEN "done" ELSE "map",
                              ret.remove.kept, i + 1)
    /\ UNCHANGED <<index, fvars, svars>>

\* line 120: "if self.index.ntotal == 0: return []"
SearchNtotal ==
    /\ Searching("ntotal")
    /\ ret' = IF Len(index) = 0 THEN SearcherAt("done", 0, <<>>, 0, <<>>)
              ELSE SearcherAt("search_k", 0, <<>>, 0, <<>>)
    /\ UNCHANGED <<ivars, fvars, svars>>

\* line 128: search_k, which reads self.index.ntotal again
SearchSearchK ==
    /\ Searching("search_k")
    /\ ret' = SearcherAt("index_search",
                         SearchK(Len(index), ret.search.top_k, ret.search.filter),
                         <<>>, 0, <<>>)
    /\ UNCHANGED <<ivars, fvars, svars>>

\* line 131: self.index.search(query_array, search_k), which raises for
\* search_k < 1 (the except clause returns [])
SearchIndex ==
    /\ Searching("index_search")
    /\ ret' = IF ret.search.search_k < 1 THEN SearcherAt("done", 0, <<>>, 0, <<>>)
              ELSE SearcherAt("lookup", ret.search.search_k,
                              IndexSearch(index, NormalizeL2(ret.search.query_embedding),
                                          0..(Len(index) - 1), ret.search.search_k),
                              1, <<>>)
    /\ UNCHANGED <<ivars, fvars, svars>>

\* lines 135-152: one turn of "for i, idx in enumerate(indices[0])", which
\* reads self.index_to_id
SearchLookup ==
    /\ Searching("lookup")
    /\ LET s == ret.search
           hit == s.hits[s.i]
           skip == \/ hit.idx = -1
                   \/ hit.idx \notin DOMAIN index_to_id
                   \/ FilteredOut(s.filter, index_to_id[hit.idx])
           results == IF skip THEN s.results
                      ELSE Append(s.results, [id |-> index_to_id[hit.idx], sim |-> hit.sim])
           last == \/ s.i = Len(s.hits)
                   \/ ~skip /\ EnoughResults(results, s.top_k)
       IN ret' = SearcherAt(IF last THEN "done" ELSE "lookup", s.search_k, s.hits,
                            s.i + 1, results)
    /\ UNCHANGED <<ivars, fvars, svars>>

NextOverlap ==
    OverlapAdd \/ OverlapCall \/ RebuildCollect \/ RebuildNewIndex \/ RebuildClearIdToIndex
        \/ RebuildClearIndexToId \/ RebuildAdd \/ RebuildMap \/ SearchNtotal
        \/ SearchSearchK \/ SearchIndex \/ SearchLookup

SpecOverlap == Init /\ [][NextOverlap]_vars

\* ---- documents, their chunks, and searches over them ----
DocIds == 1..MaxDocs

\* embeddings of chunks: as Embeddings without the wrong dimension, the zero
\* vector, and the empty list of a chunk whose embedding failed
ChunkEmbeddings == { <<10, 24>>, <<12, 5>>, <<-5, -12>>, <<0, 0>>, <<>> }
Chunks == [text : {ProseText}, embedding : ChunkEmbeddings]
ChunkLists == SeqsUpTo(Chunks, MaxBatch)

\* DocumentRepository.create: a row of documents under a fresh uuid
Create ==
    \E doc_id \in DocIds \ uuids.docs :
        /\ documents' = documents \cup {doc_id}
        /\ uuids' = [uuids EXCEPT !.docs = @ \cup {doc_id}]
        /\ ret' = Call("create", TRUE, <<>>)
        /\ UNCHANGED <<ivars, fvars, vectors, cvars>>

\* DocumentRepository.add_vectors.  fault: the INSERT raises ("store": the
\* transaction is rolled back and the error raised) or the library fails in
\* FaissIndexManager.add_vectors ("index").
DocumentRepository_add_vectors(doc_id, chunks, fault) ==
    LET rows == NewRows(doc_id, chunks, uuids.chunks)
        embedded == EmbeddedRows(rows)
        vector_ids == [i \in DOMAIN embedded |-> embedded[i].id]
        embeddings == [i \in DOMAIN embedded |-> decode_embedding(embedded[i].embedding)]
        added == add_vectors(Self, vector_ids, embeddings, fault = "index")
        saved == save(added.fm, Disk, "none")
    IN
    IF fault = "store" /\ Len(chunks) > 0
    THEN /\ UNCHANGED <<ivars, fvars, svars>>
         /\ ret' = Call("DocumentRepository.add_vectors", FALSE, <<>>)
    ELSE /\ vectors' = vectors \o rows
         /\ uuids' = [uuids EXCEPT !.chunks = @ + Len(chunks)]
         /\ UNCHANGED <<documents, cvars>>
         /\ IF Len(vector_ids) > 0
            THEN SetManager(added.fm) /\ SetFiles(saved.files)
            ELSE UNCHANGED <<ivars, fvars>>
         /\ ret' = Call("DocumentRepository.add_vectors", TRUE, <<>>)

RepositoryAddVectors ==
    \E doc_id \in documents, chunks \in ChunkLists, fault \in RepositoryFaults :
        /\ Len(vectors) + Len(chunks) <= MaxChunks
        /\ DocumentRepository_add_vectors(doc_id, chunks, fault)

\* DocumentRepository.delete.  fault: the DELETE raises ("store": rollback,
\* the error is raised) or the rebuild fails in remove_vectors ("index").
DocumentRepository_delete(doc_id, fault) ==
    LET found == SelectSeq(vectors, LAMBDA r : r.doc_id = doc_id)
        vector_ids == [i \in DOMAIN found |-> found[i].id]
        removed == remove_vectors(Self, vector_ids, fault = "index")
        saved == save(removed.fm, Disk, "none")
    IN
    /\ IF Len(vector_ids) > 0
       THEN SetManager(removed.fm) /\ SetFiles(saved.files)
       ELSE UNCHANGED <<ivars, fvars>>
    /\ documents' = IF fault = "store" THEN documents ELSE documents \ {doc_id}
    /\ UNCHANGED <<vectors, uuids, cvars>>
    /\ ret' = Call("delete", fault # "store" /\ doc_id \in documents, <<>>)

Delete ==
    \E doc_id \in DocIds, fault \in RepositoryFaults : DocumentRepository_delete(doc_id, fault)

\* The arguments of SearchService.search and what its collaborators do.
\* embedded: what the embedding provider does with the query; fault: which
\* calls of the store raise.
ValidQuery == <<" ", "q">>
Provided == { [raises |-> TRUE, embedding |-> <<>>] }
            \cup { [raises |-> FALSE, embedding |-> e] : e \in {<<>>, <<26, 0>>} }
DocIdLists == {NoFilter} \cup { ListFilter(ids) : ids \in SeqsUpTo(DocIds, 1) }
Thresholds == {0, 38461}
Collaborators ==
    { c \in Provided \X StoreFaults :
        (c[1].raises \/ Len(c[1].embedding) = 0) => c[2] = "none" }
\* arguments that pass the validation
ValidArguments ==
    { [query |-> ValidQuery, top_k |-> k, threshold |-> t, doc_ids |-> d,
       embedded |-> c[1], fault |-> c[2]] :
        k \in 1..MaxTopK, t \in Thresholds, d \in DocIdLists, c \in Collaborators }
\* arguments with one parameter out of its range
InvalidParameters ==
    { <<q, 1, 0>> : q \in { <<>>, <<" ">>, <<" ", " ">> } }
    \cup { <<ValidQuery, k, 0>> : k \in {-1, 0, 101} }
    \cup { <<ValidQuery, 1, t>> : t \in {-1, ThresholdOne + 1} }
InvalidArguments ==
    { [query |-> p[1], top_k |-> p[2], threshold |-> p[3], doc_ids |-> NoFilter,
       embedded |-> [raises |-> FALSE, embedding |-> <<26, 0>>], fault |-> "none"] :
        p \in InvalidParameters }

ServiceSearch ==
    \E a \in ValidArguments \cup InvalidArguments :
        /\ ret' = ServiceCall(SearchService_search(Self, documents, vectors, a.query,
                                 a.top_k, a.threshold, a.doc_ids, a.embedded, a.fault))
        /\ UNCHANGED <<ivars, fvars, svars>>

NextSearch == Create \/ RepositoryAddVectors \/ Delete \/ ServiceSearch

SpecSearch == Init /\ [][NextSearch]_vars

\* ---- build_rag_context over the replies of its collaborators ----
MaxCandidates == 3   \* results of the search that build_rag_context ranks

\* reported similarities: round(65/169, 4) and round(156/169, 4)
Similarities == {3846, 9231}

\* the results of a successful search are in order of similarity
CandidateLists ==
    { c \in { [i \in 1..Len(p) |->
                 [vector_id |-> IdSeq[i], doc_id |-> 1, chunk_index |-> i - 1,
                  chunk_text |-> p[i][1], similarity |-> p[i][2]]] :
              p \in SeqsUpTo(ChunkTexts \X Similarities, MaxCandidates) } :
        \A i, j \in DOMAIN c : i < j => c[i].similarity >= c[j].similarity }

Retrievals ==
    {Retrieved("unlinked", <<>>), Retrieved("raised", <<>>)}
    \cup { Retrieved("success", c) : c \in CandidateLists }

TopKs == {<<>>} \cup { <<k>> : k \in 1..MaxTopK }

\* the chat service with the reply of its collaborators at hand
InitRank ==
    /\ index = <<>>
    /\ id_to_index = <<>>
    /\ index_to_id = EmptyMap
    /\ index_file = NoIndexFile
    /\ mappings_file = NoMappingsFile
    /\ documents = {}
    /\ vectors = <<>>
    /\ uuids = [docs |-> {}, chunks |-> 0]
    /\ messages = <<>>
    /\ title = NewChatTitle
    /\ ret \in Retrievals

BuildRagContext ==
    \E top_k \in TopKs :
        /\ ret.op = "retrieved"
        /\ ret' = [op |-> "build_rag_context", top_k |-> top_k, retrieved |-> ret,
                   sources |-> build_rag_context(ret, top_k)]
        /\ UNCHANGED <<ivars, fvars, svars>>

NextRank == BuildRagContext

SpecRank == InitRank /\ [][NextRank]_vars

(***************************************************************************)
(* Claims about the index manager.                                         *)
(***************************************************************************)
ntotal == Len(index)
LiveIds == DictKeys(id_to_index)
ResultIds(results) == { results[i].id : i \in DOMAIN results }

\* C1: after any sequence of add_vectors, remove_vectors, clear, save and
\* load calls the number of vectors in the index equals the number of
\* entries of id_to_index and the number of entries of index_to_id.
C1_SizesAgree ==
    /\ ntotal = Len(id_to_index)
    /\ ntotal = Cardinality(DOMAIN index_to_id)

\* C2: index_to_id maps exactly the positions 0..ntotal-1 one-to-one onto
\* the live ids, and id_to_index is its inverse.
C2_InverseBijection ==
    /\ DOMAIN index_to_id = 0..(ntotal - 1)
    /\ \A v \in LiveIds :
          /\ DictVal(id_to_index, v) \in DOMAIN index_to_id
          /\ index_to_id[DictVal(id_to_index, v)] = v
    /\ \A p \in DOMAIN index_to_id :
          /\ index_to_id[p] \in LiveIds
          /\ DictVal(id_to_index, index_to_id[p]) = p

\* C3: a remove_vectors(ids) that returns success leaves no id of ids to be
\* returned by a search, and lowers the vector count by exactly the number
\* of distinct ids of ids that were live before the call.
C3_RemoveExact ==
    [][(ret'.op = "remove_vectors" /\ ret'.ok) =>
         /\ \A query_embedding \in Queries, top_k \in 1..MaxTopK :
               ResultIds(search(Self', query_embedding, top_k, NoFilter))
                 \cap Range(ret'.ids) = {}
         /\ Len(index') = Len(index) - Cardinality(Range(ret'.ids) \cap LiveIds)
      ]_vars

\* C4: search returns at most top_k (id, similarity) pairs, in non-increasing
\* order of similarity, each id live; and nothing on an index of zero vectors.
C4_SearchResult ==
    ret.op = "search" =>
        /\ Len(ret.results) <= ret.top_k
        /\ \A i, j \in DOMAIN ret.results :
              i < j => ret.results[i].sim >= ret.results[j].sim
        /\ ResultIds(ret.results) \subseteq LiveIds
        /\ (ntotal = 0 => ret.results = <<>>)

\* C4 witness: a filtered search with top_k = 2 that returns two hits, the
\* first strictly more similar than the second
C4_Witness ==
    /\ ret.op = "search"
    /\ ntotal = 2
    /\ ret.top_k = 2
    /\ Truthy(ret.filter)
    /\ Len(ret.results) = 2
    /\ ret.results[1].sim > ret.results[2].sim

\* C5: an add_vectors call that fails returns failure and leaves the vector
\* count and both dicts as they were.
C5_FailedAddChangesNothing ==
    [][(ret'.op = "add_vectors" /\ ~ret'.ok) =>
         UNCHANGED <<index, id_to_index, index_to_id>>]_vars

\* C5 witness: a failed add of two ids on an index that holds vectors
C5_Witness ==
    /\ ret.op = "add_vectors"
    /\ ~ret.ok
    /\ Len(ret.ids) = 2
    /\ ntotal > 0

(***************************************************************************)
(* Claims about SearchService.search: in every state the tables and the    *)
(* index reach, for every argument of the bounded sets.                    *)
(***************************************************************************)
\* the response to the arguments a in the current state
Reply(a) ==
    SearchService_search(Self, documents, vectors, a.query, a.top_k, a.threshold,
                         a.doc_ids, a.embedded, a.fault)

\* the rows in the scope of a: the chunks with an embedding of the documents asked for
InScope(a) == get_vectors_with_documents(documents, vectors, a.doc_ids)

\* what the index search returns for a
IndexHits(a) ==
    search(Self, a.embedded.embedding, a.top_k * 2,
           IF Truthy(a.doc_ids)
           THEN ListFilter([i \in DOMAIN InScope(a) |-> InScope(a)[i].id])
           ELSE NoFilter)

\* the arguments with which the provider returns an embedding and the store works
Working == { a \in ValidArguments :
               ~a.embedded.raises /\ Len(a.embedded.embedding) > 0 /\ a.fault = "none" }

Sorted(results) ==
    \A i, j \in DOMAIN results : i < j => results[i].similarity >= results[j].similarity

\* C6: when the index search returns nothing (it raised internally, or it
\* found nothing) while the store holds chunks with embeddings in scope, the
\* response is the one of the brute-force scan over the stored embeddings.
C6_FallbackOnEmptyIndexResult ==
    \A a \in Working :
        LET reply == Reply(a) IN
        (Len(IndexHits(a)) = 0 /\ Len(InScope(a)) > 0) =>
            /\ reply.path = "fallback"
            /\ reply.results =
                 Fallback(documents, vectors, a.embedded.embedding, a.top_k,
                          a.threshold, a.doc_ids, a.fault).results

\* C7: with a document-id filter every returned result belongs to a document
\* of the filter, on both paths; a filter that resolves to no chunk id
\* yields no result.
C7_ResultsWithinFilter ==
    \A a \in ValidArguments :
        LET reply == Reply(a) IN
        (Truthy(a.doc_ids) /\ reply.status = "success") =>
            /\ \A i \in DOMAIN reply.results :
                  reply.results[i].doc_id \in Range(a.doc_ids.ids)
            /\ (Len(InScope(a)) = 0 => reply.results = <<>>)

C9_ValidationFirst ==
    \A a \in ValidArguments \cup InvalidArguments :
        (\/ \A i \in DOMAIN a.query : a.query[i] = " "
         \/ a.top_k \notin 1..100
         \/ a.threshold < 0 \/ a.threshold > ThresholdOne) =>
            LET reply == Reply(a) IN
            /\ reply.status = "validation_error"
            /\ reply.touched = {}

\* C9 witness: a search refused by the validation while the tables and the
\* index hold a chunk
C9_Witness ==
    /\ ret.op = "SearchService.search"
    /\ ret.status = "validation_error"
    /\ ntotal > 0
    /\ Len(vectors) > 0

(***************************************************************************)
(* Claims about the ranking of build_rag_context.                          *)
(***************************************************************************)
Limit(top_k) == IF top_k = <<>> THEN rag_context_limit ELSE top_k[1]
Quality(result) == calculate_chunk_quality_score(result.chunk_text)
Combined(result) == result.similarity * Quality(result)
Passing(results) ==
    Cardinality({ i \in DOMAIN results : 2 * Quality(results[i]) >= ReportedOne })
Candidate(results, source) ==
    results[CHOOSE i \in DOMAIN results : results[i].vector_id = source.vector_id]

\* C10: for a non-empty list of search results build_rag_context returns
\* exactly min(top_k, number of results) sources and never none; when fewer
\* than top_k results have quality 0.5 or more and there are at least top_k
\* results, it returns exactly top_k of them, the best of all the results by
\* combined score, in order of combined score.
C10_RankerReturnsMin ==
    (ret.op = "build_rag_context" /\ ret.retrieved.state = "success"
                                  /\ Len(ret.retrieved.results) > 0) =>
        LET results == ret.retrieved.results
            top_k == Limit(ret.top_k)
            returned == { ret.sources[i].vector_id : i \in DOMAIN ret.sources }
        IN /\ Len(ret.sources) = Min(top_k, Len(results))
           /\ Len(ret.sources) > 0
           /\ Cardinality(returned) = Len(ret.sources)
           /\ \A i \in DOMAIN ret.sources :
                 \E j \in DOMAIN results : ret.sources[i].vector_id = results[j].vector_id
           /\ (Passing(results) < top_k /\ Len(results) >= top_k) =>
                 /\ Len(ret.sources) = top_k
                 /\ \A i, j \in DOMAIN ret.sources : i < j =>
                       Combined(Candidate(results, ret.sources[i]))
                           >= Combined(Candidate(results, ret.sources[j]))
                 /\ \A i \in DOMAIN ret.sources : \A j \in DOMAIN results :
                       results[j].vector_id \notin returned =>
                           Combined(Candidate(results, ret.sources[i]))
                               >= Combined(results[j])

\* C10 witness: three results of which one passes the quality bar, top_k = 2:
\* two sources are returned, one of them of quality below 0.5
C10_Witness ==
    /\ ret.op = "build_rag_context"
    /\ ret.retrieved.state = "success"
    /\ Len(ret.retrieved.results) = 3
    /\ ret.top_k = <<2>>
    /\ Passing(ret.retrieved.results) = 1
    /\ Len(ret.sources) = 2
    /\ \E i \in DOMAIN ret.sources : 2 * ret.sources[i].quality_score < ReportedOne

\* C11: when at least top_k results have quality 0.5 or more,
\* build_rag_context returns top_k sources, each of quality 0.5 or more, in
\* non-increasing order of combined score, and no result of quality 0.5 or
\* more that is left out has a higher combined score than one returned.
C11_OnlyQualityResults ==
    (ret.op = "build_rag_context" /\ ret.retrieved.state = "success"
        /\ Passing(ret.retrieved.results) >= Limit(ret.top_k)) =>
        LET results == ret.retrieved.results
            returned == { ret.sources[i].vector_id : i \in DOMAIN ret.sources }
        IN /\ Len(ret.sources) = Limit(ret.top_k)
           /\ \A i \in DOMAIN ret.sources :
                 /\ 2 * ret.sources[i].quality_score >= ReportedOne
                 /\ ret.sources[i].quality_score = Quality(Candidate(results, ret.sources[i]))
           /\ \A i, j \in DOMAIN ret.sources : i < j =>
                 Combined(Candidate(results, ret.sources[i]))
                     >= Combined(Candidate(results, ret.sources[j]))
           /\ \A i \in DOMAIN ret.sources : \A j \in DOMAIN results :
                 (results[j].vector_id \notin returned
                    /\ 2 * Quality(results[j]) >= ReportedOne) =>
                     Combined(Candidate(results, ret.sources[i])) >= Combined(results[j])

\* C11 witness: two of three results pass the quality bar, top_k = 2, and the
\* result left out has a higher combined score than one that is returned
C11_Witness ==
    /\ ret.op = "build_rag_context"
    /\ ret.retrieved.state = "success"
    /\ Len(ret.retrieved.results) = 3
    /\ ret.top_k = <<2>>
    /\ Passing(ret.retrieved.results) = 2
    /\ Len(ret.sources) = 2
    /\ \E j \in DOMAIN ret.retrieved.results :
          /\ \A i \in DOMAIN ret.sources :
                ret.sources[i].vector_id # ret.retrieved.results[j].vector_id
          /\ Combined(ret.retrieved.results[j])
                > Combined(Candidate(ret.retrieved.results, ret.sources[2]))

(***************************************************************************)
(* Claims about the files of the index manager.                            *)
(***************************************************************************)
\* C12: after a save that succeeds, then clear, then load, the manager holds
\* the vectors, id_to_index and index_to_id it held when save was called, and
\* every search returns what it returned then: the same ids in the same
\* order with the same similarities.
C12_SaveClearLoadRestores ==
    (ret.op = "load" /\ ret.saved) =>
        /\ ret.ok
        /\ Self = ret.before
        /\ \A query_embedding \in Queries, top_k \in 1..MaxTopK, filter \in Filters :
              search(Self, query_embedding, top_k, filter)
                  = search(ret.before, query_embedding, top_k, filter)

\* C12 witness: the round trip of an index of two vectors, both found by a
\* search afterwards
C12_Witness ==
    /\ ret.op = "load"
    /\ ret.saved
    /\ Len(ret.before.index) = 2
    /\ Len(search(Self, <<5, 12>>, 2, NoFilter)) = 2

\* C13: a load that runs while the index file or the mappings file is absent
\* leaves the manager empty: no vectors and two empty dicts.
C13_LoadWithoutFileIsEmpty ==
    [][(ret'.op = "load" /\ (~index_file.exists \/ mappings_file.state = "absent")) =>
         /\ index' = <<>>
         /\ id_to_index' = <<>>
         /\ index_to_id' = EmptyMap]_vars

(***************************************************************************)
(* Claims about a search that runs while remove_vectors rebuilds.          *)
(***************************************************************************)
\* C14: a search that overlaps the rebuild of remove_vectors returns what it
\* would return on the manager as it was before the removal or on the
\* manager as it is after the removal.
C14_SearchSeesOldOrNew ==
    Searching("done") =>
        \/ ret.search.results
             = search(ret.before, ret.search.query_embedding, ret.search.top_k,
                      ret.search.filter)
        \/ ret.search.results
             = search(remove_vectors(ret.before, ret.remove.vector_ids, FALSE).fm,
                      ret.search.query_embedding, ret.search.top_k, ret.search.filter)

(***************************************************************************)
(* Claims about the two paths of SearchService.search.                     *)
(***************************************************************************)
\* the index holds exactly the chunks of table vectors that have an
\* embedding: one position for each, with the normalized embedding
InSync ==
    /\ C2_InverseBijection
    /\ LiveIds = { vectors[i].id : i \in { j \in DOMAIN vectors : ~vectors[j].embedding.null } }
    /\ Len(index) = Len(id_to_index)
    /\ \A i \in DOMAIN vectors :
          ~vectors[i].embedding.null =>
              index[DictVal(id_to_index, vectors[i].id) + 1]
                  = NormalizeL2(decode_embedding(vectors[i].embedding))

ChunkIds(results) == { results[i].vector_id : i \in DOMAIN results }

\* the response of the scan over the store for the arguments a
Scan(a) ==
    Fallback(documents, vectors, a.embedded.embedding, a.top_k, a.threshold, a.doc_ids,
             "none")

\* C15: when the index holds exactly the store's chunks with an embedding,
\* the search through the index and the scan over the store return the same
\* set of chunk ids for the same query embedding, doc_ids, top_k and
\* threshold.
C15_PathsAgree ==
    InSync =>
        \A a \in Working :
            ChunkIds(Reply(a).results) = ChunkIds(Scan(a).results)

\* the embeddings the provider returns for a query: of the dimension of the
\* stored embeddings, and of another one (another embedding model)
ScanQueries == { <<26, 0>>, <<26>> }

\* a stored embedding that cannot be compared with the query: none, one that
\* decodes to nothing, one of another length, one of magnitude zero
Unusable(query_embedding, blob) ==
    \/ blob.null
    \/ Len(decode_embedding(blob)) = 0
    \/ Len(decode_embedding(blob)) # Len(query_embedding)
    \/ Magnitude(decode_embedding(blob)) = 0

\* C16: the scan over the store never returns a chunk whose stored embedding
\* has magnitude zero, does not decode, or has another length than the query
\* embedding, for every threshold, 0.0 included.
C16_ScanSkipsUnusable ==
    \A query_embedding \in ScanQueries, top_k \in 1..MaxTopK, threshold \in Thresholds,
       doc_ids \in DocIdLists :
        LET results == Fallback(documents, vectors, query_embedding, top_k, threshold,
                                doc_ids, "none").results
        IN \A i \in DOMAIN results :
              ~Unusable(query_embedding, MetadataRow(vectors, results[i].vector_id).embedding)

(***************************************************************************)
(* OllamaClient.generate_embedding, one statement at a time.  ret holds   *)
(* the call in progress: its position in the code, the loop variable, the  *)
(* replies of the provider so far and the waits slept so far.              *)
(***************************************************************************)
max_retries == 3

\* What one requests.post / raise_for_status / response.json() does: the
\* connection fails or times out (line 39), the status is not 200 (line 55),
\* the body is not a JSON object (lines 56, 61), or the body is an object
\* with or without the key "embedding"
FailureKinds == {"connection", "timeout", "status", "json"}
ProviderReplies ==
    { [kind |-> k, embedding |-> <<>>] : k \in FailureKinds \cup {"missing"} }
    \cup { [kind |-> "embedding", embedding |-> e] : e \in { <<>>, <<10, 24>> } }
Failed(reply) == reply.kind \in FailureKinds

\* line 61: result.get("embedding", [])
ReturnedEmbedding(reply) == IF reply.kind = "embedding" THEN reply.embedding ELSE <<>>

\* wait_time without the exponent
wait_time_Constant(attempt) == 1

\* line 68: wait_time = 2 ** attempt
wait_time(attempt) == 2 ^ attempt

EmbeddingCall(pc, attempt, replies, waits, result, value) ==
    [op |-> "generate_embedding", pc |-> pc, attempt |-> attempt, replies |-> replies,
     waits |-> waits, result |-> result, value |-> value]

Embedding(pc) == IF ret.op = "generate_embedding" THEN ret.pc = pc ELSE FALSE

\* lines 35-37: a caller calls generate_embedding(text) when no call is in
\* progress; range(max_retries) is entered
EmbedCall ==
    /\ IF ret.op = "generate_embedding" THEN ret.pc = "done" ELSE TRUE
    /\ ret' = EmbeddingCall(IF max_retries > 0 THEN "post" ELSE "raise",
                            0, <<>>, <<>>, "none", <<>>)
    /\ UNCHANGED <<ivars, fvars, svars>>

\* lines 38-73: one attempt.  It returns what the reply holds, or the except
\* clause goes on to the wait, or, after the last attempt, leaves the loop
EmbedPost ==
    /\ Embedding("post")
    /\ \E reply \in ProviderReplies :
          ret' = IF ~Failed(reply)
                 THEN [ret EXCEPT !.pc = "done", !.replies = Append(@, reply),
                                  !.result = "returned",
                                  !.value = ReturnedEmbedding(reply)]
                 ELSE IF ret.attempt < max_retries - 1
                 THEN [ret EXCEPT !.pc = "sleep", !.replies = Append(@, reply)]
                 ELSE [ret EXCEPT !.pc = "raise", !.replies = Append(@, reply)]
    /\ UNCHANGED <<ivars, fvars, svars>>

\* lines 68-70 and 37: time.sleep(wait_time), then the next attempt
EmbedSleep ==
    /\ Embedding("sleep")
    /\ ret' = [ret EXCEPT !.pc = "post", !.attempt = @ + 1,
                          !.waits = Append(@, wait_time(ret.attempt))]
    /\ UNCHANGED <<ivars, fvars, svars>>

\* line 76: every attempt has failed
EmbedRaise ==
    /\ Embedding("raise")
    /\ ret' = [ret EXCEPT !.pc = "done", !.result = "raised"]
    /\ UNCHANGED <<ivars, fvars, svars>>

NextEmbed == EmbedCall \/ EmbedPost \/ EmbedSleep \/ EmbedRaise

SpecEmbed == Init /\ [][NextEmbed]_vars

\* requests.post returns or raises within its timeout of 30 seconds and
\* time.sleep returns: a call in progress takes its next step
SpecEmbedFair ==
    SpecEmbed /\ WF_vars(EmbedPost) /\ WF_vars(EmbedSleep) /\ WF_vars(EmbedRaise)

(***************************************************************************)
(* Claims about OllamaClient.generate_embedding.                           *)
(***************************************************************************)
\* what holds of a call to generate_embedding at each of its steps
RetryPolicy ==
    IF ret.op # "generate_embedding" THEN TRUE
    ELSE LET calls == Len(ret.replies)
             finished == ret.pc = "done"
         IN /\ calls <= max_retries
            \* no attempt follows a successful one, and a successful one returns
            /\ \A i \in 1..(calls - 1) : Failed(ret.replies[i])
            /\ (calls > 0 /\ ~Failed(ret.replies[calls]))
                  <=> (finished /\ ret.result = "returned")
            \* the i-th failed attempt with another one to follow waits 2^i
            /\ \A i \in DOMAIN ret.waits : ret.waits[i] = 2 ^ (i - 1)
            /\ Len(ret.waits) = IF ret.pc = "post" THEN calls
                                ELSE IF calls = 0 THEN 0 ELSE calls - 1
            \* it raises when every attempt has failed, and only then
            /\ (finished /\ ret.result = "raised")
                  => (calls = max_retries /\ \A i \in 1..calls : Failed(ret.replies[i]))
            /\ finished => ret.result \in {"returned", "raised"}

C19_NeverReturnsEmpty ==
    (Embedding("done") /\ ret.result = "returned") => Len(ret.value) > 0

(***************************************************************************)
(* ChatService.generate_response behind the route send_message, for one    *)
(* chat: tables messages and chats, and the replies of the collaborators.  *)
(***************************************************************************)
MaxTurns == 2   \* turns of the chat that write messages

\* config.py line 53
chat_title_generation == TRUE

\* a text by its length after strip(); cut: it ends in "..." after title[:47]
Text(text, length, cut) == [text |-> text, length |-> length, cut |-> cut]
BlankMessage == Text(" ", 0, FALSE)
UserMessages == { Text("what is RAG?", 12, FALSE), Text("a question of sixty characters", 60, FALSE) }
RequestMessages == UserMessages \cup {BlankMessage}

\* lines 446-448: the title made of the first message
TitleOf(user_message) ==
    IF user_message.length > 50 THEN Text(user_message.text, 47 + 3, TRUE)
    ELSE user_message

\* MessageRepository.create: a row of table messages
Message(role, content, sources) == [role |-> role, content |-> content, sources |-> sources]

\* What build_rag_context gets from its collaborators.  links: what
\* chat_repo.get_chat_documents does: it raises ValueError ("missing_chat"),
\* the database raises ("store_error"), it returns no document ("none") or
\* some ("linked").  search: SearchService.search raises because
\* generate_embedding raised or returned nothing ("provider_error"), because
\* the store failed on both paths ("store_error"), or it returns results
Retrieval(links, outcome, results) ==
    [links |-> links, search |-> outcome, results |-> results]
\* the results of the search: none, or one chunk of plain sentences
ChatCandidateLists ==
    { <<>>,
      <<[vector_id |-> IdSeq[1], doc_id |-> 1, chunk_index |-> 0,
         chunk_text |-> ProseText, similarity |-> 9231]>> }
ChatRetrievals ==
    { Retrieval(l, "none", <<>>) : l \in {"missing_chat", "store_error", "none"} }
    \cup { Retrieval("linked", s, <<>>) : s \in {"provider_error", "store_error"} }
    \cup { Retrieval("linked", "success", c) : c \in ChatCandidateLists }

\* lines 187-228 of build_rag_context on these replies
RetrievedOf(retrieval) ==
    IF retrieval.links \in {"missing_chat", "none"} THEN Retrieved("unlinked", <<>>)
    ELSE IF retrieval.search # "success" THEN Retrieved("raised", <<>>)
    ELSE Retrieved("success", retrieval.results)

\* what generate_chat_response does: it raises, or returns the content of
\* the reply, which may be ""
Generations == {"raises", "", "an answer"}

\* EmptyResponse with every response taken as one to save
EmptyResponse_Never(response) == FALSE

\* line 432: not response
EmptyResponse(response) == response = ""

\* which call of the store raises during the turn, if any
TurnFaults == {"none", "history", "create_user", "create_assistant", "update_title"}

\* the dict generate_response returns, with the number of calls of
\* generate_chat_response it made and the tables after it
Turn(success, error_type, llm_calls, generated, rows, chat_title) ==
    [success |-> success, error_type |-> error_type, llm_calls |-> llm_calls,
     generated |-> generated, messages |-> rows, title |-> chat_title]
Failure(error_type, llm_calls, generated, rows, chat_title) ==
    Turn(FALSE, error_type, llm_calls, generated, rows, chat_title)

\* ChatService.generate_response on the tables rows and chat_title
generate_response(rows, chat_title, user_message, retrieval, generation, fault) ==
    LET conversation_history == rows
        sources == build_rag_context(RetrievedOf(retrieval), <<>>)
        with_user == Append(rows, Message("user", user_message, <<>>))
        with_both == Append(with_user, Message("assistant", generation, sources))
    IN
    IF fault = "history" \/ retrieval.links = "store_error"
    THEN Failure("", 0, "not called", rows, chat_title)
    ELSE IF Len(sources) = 0
    THEN Failure("no_documents", 0, "not called", rows, chat_title)
    ELSE IF generation = "raises"
    THEN Failure("", 1, generation, rows, chat_title)
    ELSE IF EmptyResponse(generation)
    THEN Failure("", 1, generation, rows, chat_title)
    ELSE IF fault = "create_user"
    THEN Failure("", 1, generation, rows, chat_title)
    ELSE IF fault = "create_assistant"
    THEN Failure("", 1, generation, with_user, chat_title)
    ELSE IF Len(conversation_history) = 0 /\ chat_title_generation
    THEN IF fault = "update_title"
         THEN Failure("", 1, generation, with_both, chat_title)
         ELSE Turn(TRUE, "", 1, generation, with_both, <<TitleOf(user_message)>>)
    ELSE Turn(TRUE, "", 1, generation, with_both, chat_title)

\* lines 164-171 of send_message: the status of the HTTP reply
StatusCode(turn) ==
    IF turn.success THEN 200
    ELSE IF turn.error_type = "no_documents" THEN 404
    ELSE 500

\* of a turn ret keeps the replies of the collaborators and what was returned
SendCall(status_code, called, retrieval, turn) ==
    [op |-> "send_message", status_code |-> status_code, called |-> called,
     links |-> retrieval.links, search |-> retrieval.search,
     found |-> Len(retrieval.results),
     success |-> turn.success, error_type |-> turn.error_type,
     llm_calls |-> turn.llm_calls, generated |-> turn.generated]

\* the route POST /{chat_id}/messages
SendMessage ==
    \E message \in RequestMessages, retrieval \in ChatRetrievals,
       generation \in Generations, fault \in TurnFaults :
        LET turn == generate_response(messages, title, message, retrieval, generation, fault)
        IN IF message.length = 0
           THEN /\ ret' = SendCall(400, FALSE, Retrieval("none", "none", <<>>),
                                   Failure("", 0, "not called", messages, title))
                /\ UNCHANGED <<ivars, fvars, svars>>
           ELSE /\ Len(turn.messages) <= 2 * MaxTurns
                /\ messages' = turn.messages
                /\ title' = turn.title
                /\ ret' = SendCall(StatusCode(turn), TRUE, retrieval, turn)
                /\ UNCHANGED <<ivars, fvars, documents, vectors, uuids>>

NextChat == SendMessage

SpecChat == Init /\ [][NextChat]_vars

(***************************************************************************)
(* Claims about ChatService.generate_response.                             *)
(***************************************************************************)
Sent == IF ret.op = "send_message" THEN ret.called ELSE FALSE

\* the retrieval found nothing to use: no document is linked to the chat, or
\* the search succeeded without a result
NothingFound == ret.links \in {"missing_chat", "none"}
                   \/ (ret.links = "linked" /\ ret.search = "success" /\ ret.found = 0)
\* the retrieval failed: the provider of embeddings or the store failed
RetrievalFailed == ret.links = "store_error"
                      \/ (ret.links = "linked" /\ ret.search \in {"provider_error", "store_error"})

\* C17: generate_response reports error_type no_documents only when the
\* retrieval found nothing to use; when the retrieval fails because the
\* provider of embeddings or the store fails, the turn fails without
\* error_type no_documents.
C17_NoDocumentsOnlyWhenNothingFound ==
    Sent =>
        /\ ret.error_type = "no_documents" => NothingFound
        /\ RetrievalFailed => (~ret.success /\ ret.error_type # "no_documents")

\* C20: a turn calls generate_chat_response at most once; when that call
\* raises or returns an empty response the turn fails and leaves tables
\* messages and chats as they were.
C20_FailedGenerationWritesNothing ==
    [][(IF ret'.op = "send_message" THEN ret'.called ELSE FALSE) =>
          /\ ret'.llm_calls <= 1
          /\ (ret'.llm_calls = 1 /\ (ret'.generated = "raises" \/ ret'.generated = ""))
                => (~ret'.success /\ messages' = messages /\ title' = title)]_vars

\* the second turn of a chat gets an empty response
C20_Witness ==
    /\ Sent
    /\ ret.llm_calls = 1
    /\ ret.generated = ""
    /\ ret.status_code = 500
    /\ Len(messages) = 2

(***************************************************************************)
(* DocumentService.process_document: embeddings of the chunks, the         *)
(* document row, the chunk rows, the status.                               *)
(***************************************************************************)
batch_size == 5

\* what generate_embedding does for the text of one chunk: it raises, or
\* returns a list, which may be empty
Embedded(raises, embedding) == [raises |-> raises, embedding |-> embedding]
EmbedOutcomes ==
    {Embedded(TRUE, <<>>)} \cup { Embedded(FALSE, e) : e \in ChunkEmbeddings }

\* EmbedBatch with the failed texts left out instead of replaced by []
RECURSIVE EmbedBatch_Skip(_, _)
EmbedBatch_Skip(batch, i) ==
    IF i > Len(batch) THEN <<>>
    ELSE (IF batch[i].raises THEN <<>> ELSE <<batch[i].embedding>>)
             \o EmbedBatch_Skip(batch, i + 1)

\* lines 107-116 of generate_embeddings_batch: the texts of one batch
RECURSIVE EmbedBatch(_, _)
EmbedBatch(batch, i) ==
    IF i > Len(batch) THEN <<>>
    ELSE <<IF batch[i].raises THEN <<>> ELSE batch[i].embedding>>
             \o EmbedBatch(batch, i + 1)

\* lines 95-119: OllamaClient.generate_embeddings_batch.  outcomes: for each
\* text what generate_embedding does with it
RECURSIVE EmbedFrom(_, _)
EmbedFrom(outcomes, i) ==
    IF i > Len(outcomes) THEN <<>>
    ELSE EmbedBatch(SubSeq(outcomes, i, Min(i + batch_size - 1, Len(outcomes))), 1)
             \o EmbedFrom(outcomes, i + batch_size)
generate_embeddings_batch(outcomes) == EmbedFrom(outcomes, 1)

\* lines 79-84 of process_document: the chunks with their embeddings
AttachEmbeddings(texts, embeddings) ==
    [i \in DOMAIN texts |->
        [text |-> texts[i],
         embedding |-> IF i <= Len(embeddings) THEN embeddings[i] ELSE <<>>]]

\* which step of process_document raises: the validation or the reading of
\* the file ("file"), the INSERT of the document ("create"), the INSERT of a
\* chunk ("store"), the library in FaissIndexManager.add_vectors ("index"),
\* update_status ("status")
IngestFaults == {"none", "file", "create", "store", "index", "status"}

\* of a call ret keeps whether it returned, whether the document row was
\* inserted, the id of the document and the embeddings the batch returned
IngestCall(ok, created, doc_id, embeddings) ==
    [op |-> "process_document", ok |-> ok, created |-> created, doc_id |-> doc_id,
     embeddings |-> embeddings]

ProcessDocument ==
    \E doc_id \in DocIds \ uuids.docs, outcomes \in SeqsUpTo(EmbedOutcomes, MaxBatch),
       fault \in IngestFaults :
        LET texts == [i \in DOMAIN outcomes |-> ProseText]
            embeddings == generate_embeddings_batch(outcomes)
            chunks == AttachEmbeddings(texts, embeddings)
            rows == NewRows(doc_id, chunks, uuids.chunks)
            embedded == EmbeddedRows(rows)
            vector_ids == [i \in DOMAIN embedded |-> embedded[i].id]
            added == add_vectors(Self, vector_ids,
                                 [i \in DOMAIN embedded |-> decode_embedding(embedded[i].embedding)],
                                 fault = "index")
            saved == save(added.fm, Disk, "none")
            stored == fault \notin {"file", "create"}
                         /\ ~(fault = "store" /\ Len(chunks) > 0)
        IN
        /\ Len(vectors) + Len(chunks) <= MaxChunks
        /\ documents' = IF fault \in {"file", "create"} THEN documents
                        ELSE documents \cup {doc_id}
        /\ vectors' = IF stored THEN vectors \o rows ELSE vectors
        /\ uuids' = IF fault = "file" THEN uuids
                    ELSE IF fault = "create" THEN [uuids EXCEPT !.docs = @ \cup {doc_id}]
                    ELSE [docs |-> uuids.docs \cup {doc_id},
                          chunks |-> uuids.chunks + Len(chunks)]
        /\ IF stored /\ Len(vector_ids) > 0
           THEN SetManager(added.fm) /\ SetFiles(saved.files)
           ELSE UNCHANGED <<ivars, fvars>>
        /\ ret' = IngestCall(stored /\ fault # "status",
                             fault \notin {"file", "create"}, doc_id,
                             IF fault = "file" THEN <<>> ELSE embeddings)
        /\ UNCHANGED cvars

NextIngest == ProcessDocument \/ Delete

SpecIngest == Init /\ [][NextIngest]_vars

(***************************************************************************)
(* Claims about DocumentService.process_document.                          *)
(***************************************************************************)
Ingested == ret.op = "process_document"
ChunksOf(doc_id) == { i \in DOMAIN vectors : vectors[i].doc_id = doc_id }

\* C21: when process_document fails after the document row was inserted,
\* the store holds neither that document row nor a chunk row of it.
C21_IngestAllOrNothing ==
    (Ingested /\ ~ret.ok /\ ret.created) =>
        (ret.doc_id \notin documents /\ ChunksOf(ret.doc_id) = {})

\* C22: a turn writes the user message and the assistant message together:
\* after generate_response returns, table messages holds both rows of the
\* turn or neither, also when the second write fails.
C22_BothMessagesOrNeither ==
    [][(IF ret'.op = "send_message" THEN ret'.called ELSE FALSE) =>
          \/ messages' = messages
          \/ /\ Len(messages') = Len(messages) + 2
             /\ messages'[Len(messages) + 1].role = "user"
             /\ messages'[Len(messages) + 2].role = "assistant"]_vars

(***************************************************************************)
(* Claims about DocumentRepository.delete.                                 *)
(***************************************************************************)
\* C23: after delete(doc_id) has returned True the store holds no chunk row
\* of that document and none of the ids of its chunks is live in the index.
C23_DeleteCascades ==
    [][(ret'.op = "delete" /\ ret'.ok) =>
          \A doc_id \in documents \ documents' :
              /\ \A i \in DOMAIN vectors' : vectors'[i].doc_id # doc_id
              /\ \A i \in DOMAIN vectors :
                    vectors[i].doc_id = doc_id => ~DictHas(id_to_index', vectors[i].id)]_vars

(***************************************************************************)
(* FaissIndexManager.build_from_database                                   *)
(***************************************************************************)
\* ORDER BY id: uuids in the order of IdSeq
IdRank(id) == CHOOSE i \in DOMAIN IdSeq : IdSeq[i] = id
RECURSIVE OrderById(_)
OrderById(s) ==
    IF Len(s) = 0 THEN <<>>
    ELSE LET first == CHOOSE i \in DOMAIN s :
                         \A j \in DOMAIN s : IdRank(s[i].id) <= IdRank(s[j].id)
         IN <<s[first]>> \o OrderById(RemoveAt(s, first))

\* lines 321-327: SELECT id, embedding FROM vectors WHERE embedding IS NOT
\* NULL ORDER BY id
RowsWithEmbedding(rows) == OrderById(SelectSeq(rows, LAMBDA r : ~r.embedding.null))

\* lines 337-350: the rows whose embedding is not empty and decodes
Decoded(found) == SelectSeq(found, LAMBDA r : Len(decode_embedding(r.embedding)) > 0)

BuildFaults == {"none", "store", "index", "save"}

\* The manager and the files after build_from_database, and the value it
\* returns.  fault: the query raises ("store"), the library fails in
\* add_vectors ("index"), save fails in write_index ("save")
build_from_database(fm, files, rows, fault) ==
    LET found == RowsWithEmbedding(rows)
        decoded == Decoded(found)
        vector_ids == [i \in DOMAIN decoded |-> decoded[i].id]
        embeddings == [i \in DOMAIN decoded |-> decode_embedding(decoded[i].embedding)]
        added == add_vectors(fm, vector_ids, embeddings, fault = "index")
        saved == save(added.fm, files, IF fault = "save" THEN "write_index" ELSE "none")
    IN
    IF fault = "store" THEN [fm |-> fm, files |-> files, ok |-> FALSE]
    ELSE IF Len(found) = 0 THEN [fm |-> fm, files |-> files, ok |-> TRUE]
    ELSE IF Len(vector_ids) > 0 /\ added.ok
    THEN [fm |-> added.fm, files |-> saved.files, ok |-> TRUE]
    ELSE [fm |-> added.fm, files |-> files, ok |-> FALSE]

\* ---- the store with embeddings of any dimension, and the index rebuilt from it ----
\* embeddings of chunks: of the dimension of the index, of another dimension
\* (another embedding model), and the empty list of a failed embedding
BuildEmbeddings == { <<10, 24>>, <<12, 5>>, <<5>>, <<>> }
BuildChunkLists == SeqsUpTo([text : {ProseText}, embedding : BuildEmbeddings], MaxBatch)

BuildAddVectors ==
    \E doc_id \in documents, chunks \in BuildChunkLists, fault \in RepositoryFaults :
        /\ Len(vectors) + Len(chunks) <= MaxChunks
        /\ DocumentRepository_add_vectors(doc_id, chunks, fault)

\* of a call ret keeps the fault and whether the index was empty before it
BuildCall(ok, fault, lost) ==
    [op |-> "build_from_database", ok |-> ok, fault |-> fault, lost |-> lost]

BuildFromDatabase ==
    \E fault \in BuildFaults :
        LET built == build_from_database(Self, Disk, vectors, fault) IN
        /\ Len(built.fm.index) <= MaxVectors
        /\ SetManager(built.fm)
        /\ SetFiles(built.files)
        /\ ret' = BuildCall(built.ok, fault, Len(index) = 0 /\ Len(id_to_index) = 0)
        /\ UNCHANGED svars

NextBuild == Create \/ BuildAddVectors \/ Delete \/ Clear \/ BuildFromDatabase

SpecBuild == Init /\ [][NextBuild]_vars

\* the ids of the chunks of the store that have an embedding
EmbeddedIds == { vectors[i].id : i \in { j \in DOMAIN vectors : ~vectors[j].embedding.null } }

\* C24: build_from_database on an empty index, with the store and the
\* library working, returns True and leaves the index holding exactly the
\* ids of the chunks of the store that have an embedding, each once, and the
\* files written by save hold the same; chunks without embedding are
\* skipped.
C24_BuildRestoresIndex ==
    (ret.op = "build_from_database" /\ ret.lost /\ ret.fault = "none") =>
        /\ ret.ok
        /\ LiveIds = EmbeddedIds
        /\ Len(index) = Cardinality(EmbeddedIds)
        /\ Len(id_to_index) = Cardinality(EmbeddedIds)
        /\ C2_InverseBijection
        /\ EmbeddedIds # {} =>
              /\ index_file = WrittenIndexFile(index)
              /\ mappings_file = WrittenMappingsFile(id_to_index, index_to_id)

(***************************************************************************)
(* FaissIndexManager.search with an id filter, on an index that holds more *)
(* vectors than the search asks the library for.                           *)
(***************************************************************************)
MaxIndexed == 11   \* vectors in the index

ManyIds == <<"v01", "v02", "v03", "v04", "v05", "v06", "v07", "v08", "v09", "v10",
             "v11", "v12", "v13">>

\* the manager after one add_vectors of n vectors under the first n ids
Indexed(embeddings) ==
    add_vectors(EmptyManager, SubSeq(ManyIds, 1, Len(embeddings)), embeddings, FALSE).fm

\* an index of up to MaxIndexed vectors: all near the query, but for one at
\* most, which is far from it
InitFilter ==
    /\ \E n \in 1..MaxIndexed, far \in 0..MaxIndexed :
          LET embeddings == [i \in 1..n |-> IF i = far THEN <<10, 24>> ELSE <<12, 5>>] IN
              /\ far <= n
              /\ index = Indexed(embeddings).index
              /\ id_to_index = Indexed(embeddings).id_to_index
              /\ index_to_id = Indexed(embeddings).index_to_id
    /\ index_file = NoIndexFile
    /\ mappings_file = NoMappingsFile
    /\ documents = {}
    /\ vectors = <<>>
    /\ uuids = [docs |-> {}, chunks |-> 0]
    /\ messages = <<>>
    /\ title = NewChatTitle
    /\ ret = Call("init", TRUE, <<>>)

\* search(query_embedding, 1, [vector_id]) for one id of the index
FilteredSearch ==
    \E vector_id \in LiveIds :
        /\ ret' = SearchCall(1, ListFilter(<<vector_id>>),
                             search(Self, <<26, 0>>, 1, ListFilter(<<vector_id>>)))
        /\ UNCHANGED <<ivars, fvars, svars>>

NextFilter == FilteredSearch

SpecFilter == InitFilter /\ [][NextFilter]_vars

\* C25: a search with an id filter of which at least top_k ids are live
\* returns exactly top_k results, all of them ids of the filter, whatever the
\* size of the index.
C25_FilterReturnsTopK ==
    (ret.op = "search" /\ Truthy(ret.filter)
        /\ Cardinality(Range(ret.filter.ids) \cap LiveIds) >= ret.top_k) =>
        /\ Len(ret.results) = ret.top_k
        /\ \A i \in DOMAIN ret.results : ret.results[i].id \in Range(ret.filter.ids)

\* the thresholds a search is repeated with, in ascending order
RaisedThresholds == <<0, 38461, ThresholdOne \div 2, ThresholdOne>>

\* the number of results of a successful search, -1 for a failed one
Returned(reply) == IF reply.status = "success" THEN Len(reply.results) ELSE -1

\* C26: for the same query, doc_ids, top_k and content of the index and the
\* store, a search with a higher threshold returns at most as many results
\* as one with a lower threshold.
C26_CountNonIncreasing ==
    \A a \in { b \in ValidArguments : b.threshold = 0 } :
        LET counts == [i \in DOMAIN RaisedThresholds |->
                          Returned(Reply([a EXCEPT !.threshold = RaisedThresholds[i]]))]
            first == counts[1]
            second == counts[2]
            third == counts[3]
            fourth == counts[4]
        IN (first >= 0 /\ second >= 0 /\ third >= 0 /\ fourth >= 0) =>
              (first >= second /\ second >= third /\ third >= fourth)

\* two results at threshold 0.0, one at 0.5, none at 1.0
C26_Witness ==
    /\ ret.op = "SearchService.search"
    /\ \E a \in Working :
          /\ a.threshold = 0 /\ a.top_k = 2
          /\ Len(Reply(a).results) = 2
          /\ Len(Reply([a EXCEPT !.threshold = ThresholdOne \div 2]).results) = 1
          /\ Len(Reply([a EXCEPT !.threshold = ThresholdOne]).results) = 0

\* ---- the index against the store across add_vectors and delete ----

\* C27: after any sequence of DocumentRepository.add_vectors and
\* DocumentRepository.delete calls, failed calls included, the ids live in
\* the index are the ids of the chunks of the store that have an embedding.
C27_IndexMatchesStore == LiveIds = EmbeddedIds

\* ---- remove_vectors on an index filled one vector at a time ----
MaxLive == 4   \* vectors added before a removal

\* add_vectors([vector_id], [embedding]) with the library working
AddOneVector ==
    \E vector_id \in Ids, embedding \in { <<10, 24>>, <<12, 5>> } :
        /\ Len(index) < MaxLive
        /\ SetManager(add_vectors(Self, <<vector_id>>, <<embedding>>, FALSE).fm)
        /\ ret' = Call("add_vectors",
                       add_vectors(Self, <<vector_id>>, <<embedding>>, FALSE).ok,
                       <<vector_id>>)
        /\ UNCHANGED <<fvars, svars>>

NextRemove == AddOneVector \/ RemoveVectors

SpecRemove == Init /\ [][NextRemove]_vars

\* the vector index.reconstruct returns for a live id
VectorOf(fm, vector_id) == fm.index[DictVal(fm.id_to_index, vector_id) + 1]

\* C28: after a successful remove_vectors every id that was live and is not
\* in the list is live with the vector it had, and two such ids keep the
\* order of their positions; a call with an empty list or with no live id
\* returns True and leaves the index and both dicts as they were.
C28_RemoveKeepsRetained ==
    [][ret'.op = "remove_vectors" =>
         LET retained == LiveIds \ Range(ret'.ids) IN
         /\ ret'.ok =>
               /\ \A vector_id \in retained :
                     /\ DictHas(id_to_index', vector_id)
                     /\ VectorOf(Self', vector_id) = VectorOf(Self, vector_id)
               /\ \A first \in retained, second \in retained :
                     DictVal(id_to_index, first) < DictVal(id_to_index, second) =>
                         DictVal(id_to_index', first) < DictVal(id_to_index', second)
         /\ Range(ret'.ids) \cap LiveIds = {} => (ret'.ok /\ UNCHANGED ivars)
      ]_vars

\* ---- chunks without embedding, from the batch to the search ----
MaxTexts == 6   \* texts passed to one generate_embeddings_batch call

\* for each text what generate_embedding does with it
BatchOutcomes == SeqsUpTo({Embedded(TRUE, <<>>), Embedded(FALSE, <<10, 24>>)}, MaxTexts)

\* of a call ret keeps the outcomes of generate_embedding and the list returned
BatchCall(outcomes, embeddings) ==
    [op |-> "generate_embeddings_batch", outcomes |-> outcomes, embeddings |-> embeddings]

\* OllamaClient.generate_embeddings_batch(texts)
EmbedTexts ==
    \E outcomes \in BatchOutcomes :
        /\ ret' = BatchCall(outcomes, generate_embeddings_batch(outcomes))
        /\ UNCHANGED <<ivars, fvars, svars>>

NextChunks == EmbedTexts \/ ProcessDocument \/ Delete

SpecChunks == Init /\ [][NextChunks]_vars

\* the ids of the chunk rows stored without embedding
NullIds == { vectors[i].id : i \in { j \in DOMAIN vectors : vectors[j].embedding.null } }

\* C29: generate_embeddings_batch returns one entry per text, in the order
\* of the texts, [] where generate_embedding raised; a chunk whose embedding
\* is [] is stored with a NULL embedding, its id is not live in the index,
\* and no search returns it.
C29_EmptyEmbeddingNeverSearched ==
    IF ret.op = "generate_embeddings_batch"
    THEN /\ Len(ret.embeddings) = Len(ret.outcomes)
         /\ \A i \in DOMAIN ret.outcomes :
               ret.embeddings[i] = IF ret.outcomes[i].raises THEN <<>>
                                   ELSE ret.outcomes[i].embedding
    ELSE /\ Ingested =>
               \A i \in ChunksOf(ret.doc_id) :
                   vectors[i].embedding.null
                     <=> (Len(ret.embeddings[vectors[i].chunk_index + 1]) = 0)
         /\ NullIds \cap LiveIds = {}
         /\ \A a \in ValidArguments :
               LET results == Reply(a).results
               IN \A i \in DOMAIN results : results[i].vector_id \notin NullIds
         /\ \A query_embedding \in Queries, top_k \in 1..MaxTopK :
               ResultIds(search(Self, query_embedding, top_k, NoFilter)) \cap NullIds = {}

\* a document ingested whose chunk got no embedding, next to a chunk that a
\* search returns
C29_Witness ==
    /\ Ingested /\ ret.ok
    /\ \E i \in ChunksOf(ret.doc_id) :
          vectors[i].embedding.null /\ ret.embeddings[vectors[i].chunk_index + 1] = <<>>
    /\ \E a \in Working : Len(Reply(a).results) > 0

(***************************************************************************)
(* The search controller: GET /api/search.                                 *)
(***************************************************************************)
\* SearchService.__init__(self, vector_repo, ollama_client, faiss_manager):
\* the parameters after self, none with a default
SearchService_init == <<"vector_repo", "ollama_client", "faiss_manager">>

\* a call raises TypeError unless every parameter without a default gets an
\* argument
MissingArgument(parameters, arguments) == Len(arguments) < Len(parameters)

\* get_search_service of the search controller: SearchService(vector_repo, ollama)
get_search_service ==
    [raises |-> MissingArgument(SearchService_init, <<"vector_repo", "ollama">>)]

HttpResponse(status_code, results) == [status_code |-> status_code, results |-> results]

\* Query(5, ge=1, le=100) and Query(0.0, ge=0.0, le=1.0)
QueryOutOfRange(top_k, threshold) ==
    top_k < 1 \/ top_k > 100 \/ threshold < 0 \/ threshold > ThresholdOne

\* search_vectors: the parameters are validated, then the dependencies are
\* resolved, then the handler runs.  doc_ids is the list the handler parses
\* from the comma-separated string.
search_vectors(fm, docs, rows, a) ==
    IF QueryOutOfRange(a.top_k, a.threshold) THEN HttpResponse(422, <<>>)
    ELSE IF get_search_service.raises THEN HttpResponse(500, <<>>)
    ELSE LET result == SearchService_search(fm, docs, rows, Strip(a.query), a.top_k,
                                            a.threshold, a.doc_ids, a.embedded, a.fault)
         IN IF result.status = "validation_error" THEN HttpResponse(400, <<>>)
            ELSE IF result.status = "success" THEN HttpResponse(200, result.results)
            ELSE HttpResponse(500, <<>>)

\* of a request ret keeps whether its parameters are those of a valid
\* request, whether the provider and the store work, and the response
EndpointCall(valid, working, response) ==
    [op |-> "GET /api/search", valid |-> valid, working |-> working,
     status_code |-> response.status_code, returned |-> Len(response.results)]

SearchVectors ==
    \E a \in ValidArguments \cup InvalidArguments :
        /\ ret' = EndpointCall(Len(Strip(a.query)) > 0 /\ ~QueryOutOfRange(a.top_k, a.threshold),
                               a \in Working,
                               search_vectors(Self, documents, vectors, a))
        /\ UNCHANGED <<ivars, fvars, svars>>

NextEndpoint == Create \/ RepositoryAddVectors \/ Delete \/ SearchVectors

SpecEndpoint == Init /\ [][NextEndpoint]_vars

\* C30: a request to /api/search with a query that is not empty after
\* trimming, top_k in [1, 100] and threshold in [0.0, 1.0], made while the
\* embedding provider and the store work, gets a success response.
C30_ValidRequestSucceeds ==
    IF ret.op = "GET /api/search"
    THEN (ret.valid /\ ret.working) => ret.status_code = 200
    ELSE TRUE

====
